---- MODULE Spec2Model ----
(***************************************************************************)
(* A model of hexmake: the conductor (src/exec/conductor.rs) that drives a *)
(* build plan with four worker threads over a shared work list, and the    *)
(* content-addressed build cache (src/cache/build_cache.rs) over the       *)
(* virtual file system (src/file_system).                                  *)
(***************************************************************************)
EXTENDS Integers, Sequences, FiniteSets, TLC

\* ------------------------------------------------------------------------
\* Bounds of the model
\* ------------------------------------------------------------------------

\* Largest number of tasks in a build plan.
MaxTasks == 3

\* File contents are 1 .. MaxContent; content c stands for c * SizeUnitMiB
\* MiB of bytes.
MaxContent == 2

SizeUnitMiB == 90

\* The fake file system's logical clock runs up to MaxClock.
MaxClock == 6

\* Largest number of changes made to the workspace from outside the cache.
MaxEdits == 2

\* Largest number of builds run one after the other on one workspace.
MaxBuilds == 2

\* The modification times of the files of a cache taken as given are
\* 1 .. MaxModtime.
MaxModtime == 3

\* The Hexmake files given to the planner have MaxRules rules.
MaxRules == 3

\* plan_build is given at most MaxTargets targets.
MaxTargets == 2

\* ------------------------------------------------------------------------
\* Program constants
\* ------------------------------------------------------------------------

\* conduct_build: `for i in 0..4`
NumWorkers == 4

Workers == 0 .. (NumWorkers - 1)

TaskIds == 1 .. MaxTasks

VARIABLES
    \* ---- the build plan (graph/planner.rs, graph/task.rs) ----
    tasks,                  \* BuildPlan.tasks: the rule names of the plan
    depends_on,             \* Task.depends_on, per task
    used_by,                \* Task.used_by, per task: a Vec, in insertion order
    unbuilt_dependencies,   \* Task.unbuilt_dependencies
    is_built,               \* Task.is_built
    \* ---- WorkList (exec/work_list.rs) ----
    pending_tasks,          \* Vec of tasks; workers pop the last one
    running_tasks,          \* BTreeSet of rule names
    error_occurred,         \* bool
    wl_holder,              \* "worker" when a worker is blocked on a task lock
                            \* while it holds the work list mutex, else "none"
    \* ---- threads (exec/conductor.rs) ----
    wpc,                    \* where each worker is in run_worker
    wtask,                  \* the task a worker holds (0: none)
    wresult,                \* build_result of the worker's step
    mainpc,                 \* where the main thread is in conduct_build
    main_result,            \* what conduct_build returned: "none", "Ok", "Err"
    exit_code,              \* 0 while the process lives; else the code given
                            \* to std::process::exit by build_rule
    \* ---- history, for stating the properties ----
    gc_invoked,             \* cache.maybe_gc() has been called
    step_failed,            \* some build step failed (error or process exit)
    error_returned,         \* some build step returned an error to its worker
    \* ---- the file system behind the cache (file_system/*.rs) ----
    fs_kind,                \* "posix" (PosixFileSystem) or "fake" (FakeFileSystem)
    env,                    \* BuildCache.env, the environment projection
    ws,                     \* workspace files: path -> contents (0: no file)
    cache_outputs,          \* .hex/cache/outputs: name -> [contents, modtime]
    cache_inputmaps,        \* .hex/cache/inputmaps: name -> text
    clock,                  \* FakeFileSystem's State.clock
    edits,                  \* number of changes made from outside so far
    \* ---- history, for stating the properties ----
    last_op,                \* the cache operation just completed, and its result
    snap,                   \* per rule, what its last insert_outputs stored
    \* ---- builds run one after the other (main.rs) ----
    phase,                  \* "idle", "building", "done", "failed", "exited"
    build_no,               \* number of builds started
    target,                 \* the target path of the build
    task_outcome,           \* per rule, how its task ended in this build
    src_changed,            \* a source changed since the last build ended
    output_removed,         \* an output was removed since the last build ended
    second,                 \* this build repeats a successful build of the
                            \* same target, no source changed in between
    \* ---- the planner alone (graph/planner.rs) ----
    hex_file,               \* HexmakeFile.rules: the rules, in file order
    targets,                \* the target strings given to plan_build
    plan_result,            \* what plan_build returned
    \* ---- one run of the program (main.rs) ----
    main_run,               \* where main_internal is, what it returned, and
                            \* what it has done to the workspace so far
    \* ---- BuildHash::hash alone (cache/build_hash.rs) ----
    hash_run,               \* the rule, environment and file system given to
                            \* BuildHash::hash, and two of its results
    \* ---- two workers in the cache at once (cache/build_cache.rs) ----
    copy_run                \* the files they share and where each worker is

condVars == << tasks, depends_on, used_by, unbuilt_dependencies, is_built,
               pending_tasks, running_tasks, error_occurred, wl_holder,
               wpc, wtask, wresult, mainpc, main_result, exit_code,
               gc_invoked, step_failed, error_returned >>

cacheVars == << fs_kind, env, ws, cache_outputs, cache_inputmaps, clock,
                edits, last_op, snap >>

buildVars == << phase, build_no, target, task_outcome, src_changed,
               output_removed, second >>

planVars == << hex_file, targets, plan_result, main_run, hash_run,
              copy_run >>

vars == << condVars, cacheVars, buildVars, planVars >>

\* The variables of the planner, when plan_build is not modelled.
PlanUnused ==
    /\ hex_file = << >>
    /\ targets = << >>
    /\ plan_result = << >>
    /\ main_run = << >>
    /\ hash_run = << >>
    /\ copy_run = << >>

\* The variables of the sequence of builds, when no build is modelled.
BuildUnused ==
    /\ phase = "none"
    /\ build_no = 0
    /\ target = ""
    /\ task_outcome = << >>
    /\ src_changed = FALSE
    /\ output_removed = FALSE
    /\ second = FALSE

\* The cache variables during the runs of the conductor alone, in which the
\* build steps are taken by their outcome only.
CacheUnused ==
    /\ fs_kind = "posix"
    /\ env = << >>
    /\ ws = << >>
    /\ cache_outputs = << >>
    /\ cache_inputmaps = << >>
    /\ clock = 0
    /\ edits = 0
    /\ last_op = << >>
    /\ snap = << >>

\* The conductor variables during the runs of the cache alone.
ConductorUnused ==
    /\ tasks = {}
    /\ depends_on = << >>
    /\ used_by = << >>
    /\ unbuilt_dependencies = << >>
    /\ is_built = << >>
    /\ pending_tasks = << >>
    /\ running_tasks = {}
    /\ error_occurred = FALSE
    /\ wl_holder = "none"
    /\ wpc = << >>
    /\ wtask = << >>
    /\ wresult = << >>
    /\ mainpc = "none"
    /\ main_result = "none"
    /\ exit_code = 0
    /\ gc_invoked = FALSE
    /\ step_failed = FALSE
    /\ error_returned = FALSE

\* ------------------------------------------------------------------------
\* Helpers
\* ------------------------------------------------------------------------

\* The elements of a finite set of integers as an ascending sequence
\* (the iteration order of a BTreeMap / BTreeSet keyed by them).
RECURSIVE Ascending(_)
Ascending(S) ==
    IF S = {} THEN << >>
    ELSE LET m == CHOOSE x \in S : \A y \in S : x <= y
         IN  << m >> \o Ascending(S \ {m})

\* The set of elements of a sequence.
Range(s) == { s[i] : i \in 1 .. Len(s) }

\* All orderings (without repetition) of a finite set.
Orderings(S) ==
    { s \in [1 .. Cardinality(S) -> S] : Range(s) = S }

\* ------------------------------------------------------------------------
\* Task (graph/task.rs)
\* ------------------------------------------------------------------------

\* Task::ready_to_run
ReadyToRunMutant(t) == TRUE
ready_to_run(t) == unbuilt_dependencies[t] = 0

\* The test run_worker applies to the count dependency_finished returns.
NowReadyMutant(new_count) == TRUE
NowReady(new_count) == new_count = 0

\* The plans plan_build can return with at most MaxTasks rules: the tasks are
\* named 1..n, the depends_on relation is acyclic (rule names are ordered so
\* that a rule depends only on smaller ones), used_by is its inverse in some
\* insertion order, and add_dependency counted each edge once.
DependsOnChoices ==
    LET RECURSIVE upto(_)
        upto(k) ==
            IF k = 0 THEN { << >> }
            ELSE { Append(d, S) : d \in upto(k - 1), S \in SUBSET (1 .. (k - 1)) }
    IN  upto(MaxTasks)

UsedByChoices(d) ==
    LET users(t) == { x \in TaskIds : t \in d[x] }
        RECURSIVE upto(_)
        upto(k) ==
            IF k = 0 THEN { << >> }
            ELSE { Append(u, o) : u \in upto(k - 1), o \in Orderings(users(k)) }
    IN  upto(MaxTasks)

PlanInit ==
    \E n \in 0 .. MaxTasks :
        \E d \in { x \in DependsOnChoices : \A t \in TaskIds : t > n => x[t] = {} } :
            \E u \in UsedByChoices(d) :
                /\ tasks = 1 .. n
                /\ depends_on = d
                /\ used_by = u
                /\ unbuilt_dependencies = [t \in TaskIds |-> Cardinality(d[t])]
                /\ is_built = [t \in TaskIds |-> FALSE]

\* ------------------------------------------------------------------------
\* conduct_build, the main thread
\* ------------------------------------------------------------------------

Alive == exit_code = 0

WorkListFree == wl_holder = "none"

\* A task's mutex is held by the worker that runs it, from run_worker's
\* task.lock() until the end of that loop iteration.
TaskLockedMutant(t) == \E w \in Workers : wtask[w] # 0
TaskLocked(t) ==
    \E w \in Workers : wtask[w] = t /\ wpc[w] \in {"retrieve", "build", "insert", "finish"}

\* Condvar::notify_all: every thread waiting on the condition variable goes
\* back to re-check its loop condition.
NotifiedWorkers(pcs) ==
    [w \in Workers |-> IF pcs[w] = "wait" THEN "get" ELSE pcs[w]]

NotifiedMain(pc) == IF pc = "waiting" THEN "check" ELSE pc

CondInit ==
    /\ PlanUnused
    /\ CacheUnused
    /\ BuildUnused
    /\ PlanInit
    /\ pending_tasks = << >>
    /\ running_tasks = {}
    /\ error_occurred = FALSE
    /\ wl_holder = "none"
    /\ wpc = [w \in Workers |-> "get"]
    /\ wtask = [w \in Workers |-> 0]
    /\ wresult = [w \in Workers |-> "none"]
    /\ mainpc = "seed"
    /\ main_result = "none"
    /\ exit_code = 0
    /\ gc_invoked = FALSE
    /\ step_failed = FALSE
    /\ error_returned = FALSE

\* conduct_build, lines 19-35: push every ready task, in the order of the
\* BTreeMap, then spawn the workers.
Seed ==
    /\ Alive
    /\ mainpc = "seed"
    /\ pending_tasks' = Ascending({ t \in tasks : ready_to_run(t) })
    /\ mainpc' = "check"
    /\ UNCHANGED << tasks, depends_on, used_by, unbuilt_dependencies, is_built,
                    running_tasks, error_occurred, wl_holder, wpc, wtask, wresult,
                    main_result, exit_code, gc_invoked, step_failed, error_returned >>
    /\ UNCHANGED << cacheVars, buildVars, planVars >>

\* wait_for_workers: the condition under which the main thread keeps waiting.
MainMustWaitMutant(pending, running) == pending # << >>
MainMustWait(pending, running) == pending # << >> \/ running # {}

\* wait_for_workers, lines 151-153: work remains, wait on the condvar.
MainWait ==
    /\ Alive /\ WorkListFree
    /\ mainpc = "check"
    /\ MainMustWait(pending_tasks, running_tasks)
    /\ mainpc' = "waiting"
    /\ UNCHANGED << tasks, depends_on, used_by, unbuilt_dependencies, is_built,
                    pending_tasks, running_tasks, error_occurred, wl_holder,
                    wpc, wtask, wresult, main_result, exit_code,
                    gc_invoked, step_failed, error_returned >>
    /\ UNCHANGED << cacheVars, buildVars, planVars >>

\* wait_for_workers, lines 155-156, and conduct_build line 37: the `?`
\* returns the error; maybe_gc is not reached.
MainFail ==
    /\ Alive /\ WorkListFree
    /\ mainpc = "check"
    /\ ~MainMustWait(pending_tasks, running_tasks)
    /\ error_occurred
    /\ mainpc' = "returned"
    /\ main_result' = "Err"
    /\ UNCHANGED << tasks, depends_on, used_by, unbuilt_dependencies, is_built,
                    pending_tasks, running_tasks, error_occurred, wl_holder,
                    wpc, wtask, wresult, exit_code,
                    gc_invoked, step_failed, error_returned >>
    /\ UNCHANGED << cacheVars, buildVars, planVars >>

\* wait_for_workers, lines 157-158, and conduct_build line 38: the main
\* thread enters build_cache.maybe_gc().
MainGc ==
    /\ Alive /\ WorkListFree
    /\ mainpc = "check"
    /\ ~MainMustWait(pending_tasks, running_tasks)
    /\ ~error_occurred
    /\ mainpc' = "gc"
    /\ gc_invoked' = TRUE
    /\ UNCHANGED << tasks, depends_on, used_by, unbuilt_dependencies, is_built,
                    pending_tasks, running_tasks, error_occurred, wl_holder,
                    wpc, wtask, wresult, main_result, exit_code,
                    step_failed, error_returned >>
    /\ UNCHANGED << cacheVars, buildVars, planVars >>

\* conduct_build, lines 38-40: `build_cache.maybe_gc()?; Ok(())`. maybe_gc
\* returns an io::Error when one of its file system calls does.
GcReturn ==
    /\ Alive
    /\ mainpc = "gc"
    /\ \E gc_result \in {"Ok", "Err"} : main_result' = gc_result
    /\ mainpc' = "returned"
    /\ UNCHANGED << tasks, depends_on, used_by, unbuilt_dependencies, is_built,
                    pending_tasks, running_tasks, error_occurred, wl_holder,
                    wpc, wtask, wresult, exit_code,
                    gc_invoked, step_failed, error_returned >>
    /\ UNCHANGED << cacheVars, buildVars, planVars >>

\* ------------------------------------------------------------------------
\* run_worker and get_task_from_worklist
\* ------------------------------------------------------------------------

Spawned == mainpc # "seed"

\* get_task_from_worklist, lines 123-126: nothing pending, nothing running.
WorkerExit(w) ==
    /\ Alive /\ WorkListFree /\ Spawned
    /\ wpc[w] = "get"
    /\ pending_tasks = << >> /\ running_tasks = {}
    /\ wpc' = [wpc EXCEPT ![w] = "done"]
    /\ UNCHANGED << tasks, depends_on, used_by, unbuilt_dependencies, is_built,
                    pending_tasks, running_tasks, error_occurred, wl_holder,
                    wtask, wresult, mainpc, main_result, exit_code,
                    gc_invoked, step_failed, error_returned >>
    /\ UNCHANGED << cacheVars, buildVars, planVars >>

\* What get_task_from_worklist records in running_tasks for the task it pops.
RunningAfterTake(running, t) == running \cup {t}

\* get_task_from_worklist, lines 128-136, and run_worker line 59: pop the
\* last pending task, insert its name into running_tasks, lock the task.
\* Reading the name locks the task while the work list is held: were the
\* task locked by a running worker, this thread would block with the work
\* list mutex in its hands.
TakeTask(w) ==
    /\ Alive /\ WorkListFree /\ Spawned
    /\ wpc[w] = "get"
    /\ pending_tasks # << >>
    /\ LET last_index == Len(pending_tasks)
           t == pending_tasks[last_index]
       IN  IF TaskLocked(t)
           THEN /\ wl_holder' = "worker"
                /\ wpc' = [wpc EXCEPT ![w] = "blocked"]
                /\ UNCHANGED << pending_tasks, running_tasks, wtask >>
           ELSE /\ pending_tasks' = SubSeq(pending_tasks, 1, last_index - 1)
                /\ running_tasks' = RunningAfterTake(running_tasks, t)
                /\ wpc' = [wpc EXCEPT ![w] = "retrieve"]
                /\ wtask' = [wtask EXCEPT ![w] = t]
                /\ UNCHANGED wl_holder
    /\ UNCHANGED << tasks, depends_on, used_by, unbuilt_dependencies, is_built,
                    error_occurred, wresult, mainpc, main_result, exit_code,
                    gc_invoked, step_failed, error_returned >>
    /\ UNCHANGED << cacheVars, buildVars, planVars >>

\* get_task_from_worklist, line 140: nothing pending but tasks are running.
WorkerWait(w) ==
    /\ Alive /\ WorkListFree /\ Spawned
    /\ wpc[w] = "get"
    /\ pending_tasks = << >> /\ running_tasks # {}
    /\ wpc' = [wpc EXCEPT ![w] = "wait"]
    /\ UNCHANGED << tasks, depends_on, used_by, unbuilt_dependencies, is_built,
                    pending_tasks, running_tasks, error_occurred, wl_holder,
                    wtask, wresult, mainpc, main_result, exit_code,
                    gc_invoked, step_failed, error_returned >>
    /\ UNCHANGED << cacheVars, buildVars, planVars >>

\* Condvar::wait may return without a notification (std::sync::Condvar);
\* the loops of get_task_from_worklist and wait_for_workers re-check.
SpuriousWakeup ==
    /\ Alive
    /\ \/ /\ \E w \in Workers :
                /\ wpc[w] = "wait"
                /\ wpc' = [wpc EXCEPT ![w] = "get"]
          /\ UNCHANGED mainpc
       \/ /\ mainpc = "waiting"
          /\ mainpc' = "check"
          /\ UNCHANGED wpc
    /\ UNCHANGED << tasks, depends_on, used_by, unbuilt_dependencies, is_built,
                    pending_tasks, running_tasks, error_occurred, wl_holder,
                    wtask, wresult, main_result, exit_code,
                    gc_invoked, step_failed, error_returned >>
    /\ UNCHANGED << cacheVars, buildVars, planVars >>

\* Task::build_finished, called at the end of check_cache_or_build_now: the
\* assertion panics the worker when the task is already built.
BuildFinished(w) ==
    IF is_built[wtask[w]]
    THEN /\ wpc' = [wpc EXCEPT ![w] = "panic"]
         /\ UNCHANGED << is_built, wresult >>
    ELSE /\ is_built' = [is_built EXCEPT ![wtask[w]] = TRUE]
         /\ wpc' = [wpc EXCEPT ![w] = "finish"]
         /\ wresult' = [wresult EXCEPT ![w] = "ok"]

\* check_cache_or_build_now, line 98: build_cache.retrieve_outputs(rule)?
\* returns a hit, a miss or an io::Error.
RetrieveStep(w) ==
    /\ Alive
    /\ wpc[w] = "retrieve"
    /\ \E outcome \in {"hit", "miss", "err"} :
          CASE outcome = "hit" ->
                  /\ BuildFinished(w)
                  /\ UNCHANGED << step_failed, error_returned >>
            [] outcome = "miss" ->
                  /\ wpc' = [wpc EXCEPT ![w] = "build"]
                  /\ UNCHANGED << is_built, wresult, step_failed, error_returned >>
            [] outcome = "err" ->
                  /\ wpc' = [wpc EXCEPT ![w] = "finish"]
                  /\ wresult' = [wresult EXCEPT ![w] = "err"]
                  /\ step_failed' = TRUE
                  /\ error_returned' = TRUE
                  /\ UNCHANGED is_built
    /\ UNCHANGED << tasks, depends_on, used_by, unbuilt_dependencies,
                    pending_tasks, running_tasks, error_occurred, wl_holder,
                    wtask, mainpc, main_result, exit_code, gc_invoked >>
    /\ UNCHANGED << cacheVars, buildVars, planVars >>

\* check_cache_or_build_now, line 104: build_rule (exec/rule_builder.rs).
\* build_rule returns nothing: when a command exits with a non-zero status
\* it calls exit(1), and on an io::Error it prints it and calls exit(2).
BuildStep(w) ==
    /\ Alive
    /\ wpc[w] = "build"
    /\ \E outcome \in {"ok", "command_failed", "io_error"} :
          CASE outcome = "ok" ->
                  /\ wpc' = [wpc EXCEPT ![w] = "insert"]
                  /\ UNCHANGED << exit_code, step_failed >>
            [] outcome = "command_failed" ->
                  /\ exit_code' = 1
                  /\ step_failed' = TRUE
                  /\ UNCHANGED wpc
            [] outcome = "io_error" ->
                  /\ exit_code' = 2
                  /\ step_failed' = TRUE
                  /\ UNCHANGED wpc
    /\ UNCHANGED << tasks, depends_on, used_by, unbuilt_dependencies, is_built,
                    pending_tasks, running_tasks, error_occurred, wl_holder,
                    wtask, wresult, mainpc, main_result,
                    gc_invoked, error_returned >>
    /\ UNCHANGED << cacheVars, buildVars, planVars >>

\* check_cache_or_build_now, lines 105-110: build_cache.insert_outputs(rule)?
\* and then task.build_finished().
InsertStep(w) ==
    /\ Alive
    /\ wpc[w] = "insert"
    /\ \E outcome \in {"ok", "err"} :
          CASE outcome = "ok" ->
                  /\ BuildFinished(w)
                  /\ UNCHANGED << step_failed, error_returned >>
            [] outcome = "err" ->
                  /\ wpc' = [wpc EXCEPT ![w] = "finish"]
                  /\ wresult' = [wresult EXCEPT ![w] = "err"]
                  /\ step_failed' = TRUE
                  /\ error_returned' = TRUE
                  /\ UNCHANGED is_built
    /\ UNCHANGED << tasks, depends_on, used_by, unbuilt_dependencies,
                    pending_tasks, running_tasks, error_occurred, wl_holder,
                    wtask, mainpc, main_result, exit_code, gc_invoked >>
    /\ UNCHANGED << cacheVars, buildVars, planVars >>

\* run_worker, lines 63-77: the step returned an error. Remove the task from
\* running_tasks, set error_occurred, clear pending_tasks, notify, return.
FinishErr(w) ==
    /\ Alive /\ WorkListFree
    /\ wpc[w] = "finish"
    /\ wresult[w] = "err"
    /\ running_tasks' = running_tasks \ {wtask[w]}
    /\ error_occurred' = TRUE
    /\ pending_tasks' = << >>
    /\ wpc' = [NotifiedWorkers(wpc) EXCEPT ![w] = "done"]
    /\ mainpc' = NotifiedMain(mainpc)
    /\ wtask' = [wtask EXCEPT ![w] = 0]
    /\ wresult' = [wresult EXCEPT ![w] = "none"]
    /\ UNCHANGED << tasks, depends_on, used_by, unbuilt_dependencies, is_built,
                    wl_holder, main_result, exit_code,
                    gc_invoked, step_failed, error_returned >>
    /\ UNCHANGED << cacheVars, buildVars, planVars >>

\* The used_by tasks, in order, whose counter dependency_finished brings to
\* a value that run_worker takes as ready.
NewlyReady(t) ==
    SelectSeq(used_by[t], LAMBDA u : NowReady(unbuilt_dependencies[u] - 1))

\* run_worker, lines 63-88: the step succeeded. Remove the task from
\* running_tasks; for each used_by task, lock it and call
\* dependency_finished, pushing it when the count reaches zero; notify.
\* dependency_finished asserts that the counter is positive; a used_by task
\* locked by a running worker blocks this thread with the work list held.
FinishOk(w) ==
    /\ Alive /\ WorkListFree
    /\ wpc[w] = "finish"
    /\ wresult[w] = "ok"
    /\ LET t == wtask[w]
           users == Range(used_by[t])
       IN  IF \E u \in users : TaskLocked(u)
           THEN /\ wl_holder' = "worker"
                /\ wpc' = [wpc EXCEPT ![w] = "blocked"]
                /\ running_tasks' = running_tasks \ {t}
                /\ UNCHANGED << unbuilt_dependencies, pending_tasks, mainpc,
                                wtask, wresult >>
           ELSE IF \E u \in users : unbuilt_dependencies[u] = 0
           THEN /\ wpc' = [wpc EXCEPT ![w] = "panic"]
                /\ running_tasks' = running_tasks \ {t}
                /\ UNCHANGED << unbuilt_dependencies, pending_tasks, mainpc,
                                wl_holder, wtask, wresult >>
           ELSE /\ running_tasks' = running_tasks \ {t}
                /\ unbuilt_dependencies' =
                       [u \in TaskIds |-> IF u \in users
                                          THEN unbuilt_dependencies[u] - 1
                                          ELSE unbuilt_dependencies[u]]
                /\ pending_tasks' = pending_tasks \o NewlyReady(t)
                /\ wpc' = [NotifiedWorkers(wpc) EXCEPT ![w] = "get"]
                /\ mainpc' = NotifiedMain(mainpc)
                /\ wtask' = [wtask EXCEPT ![w] = 0]
                /\ wresult' = [wresult EXCEPT ![w] = "none"]
                /\ UNCHANGED wl_holder
    /\ UNCHANGED << tasks, depends_on, used_by, is_built, error_occurred,
                    main_result, exit_code,
                    gc_invoked, step_failed, error_returned >>
    /\ UNCHANGED << cacheVars, buildVars, planVars >>

CondNext ==
    \/ Seed
    \/ MainWait
    \/ MainFail
    \/ MainGc
    \/ GcReturn
    \/ SpuriousWakeup
    \/ \E w \in Workers : WorkerExit(w)
    \/ \E w \in Workers : TakeTask(w)
    \/ \E w \in Workers : WorkerWait(w)
    \/ \E w \in Workers : RetrieveStep(w)
    \/ \E w \in Workers : BuildStep(w)
    \/ \E w \in Workers : InsertStep(w)
    \/ \E w \in Workers : FinishErr(w)
    \/ \E w \in Workers : FinishOk(w)

\* The conductor: one build of one plan by the main thread and four workers.
Spec == CondInit /\ [][CondNext]_vars

\* The steps of the main thread and of one worker, for the fairness the
\* operating system's scheduler gives every thread that can run.
MainStep == Seed \/ MainWait \/ MainFail \/ MainGc \/ GcReturn

WorkerStep(w) ==
    \/ WorkerExit(w) \/ TakeTask(w) \/ WorkerWait(w)
    \/ RetrieveStep(w) \/ BuildStep(w) \/ InsertStep(w)
    \/ FinishErr(w) \/ FinishOk(w)

FairSpec ==
    /\ CondInit
    /\ [][CondNext]_vars
    /\ WF_vars(MainStep)
    /\ \A w \in Workers : WF_vars(WorkerStep(w))

\* ------------------------------------------------------------------------
\* Properties of the conductor
\* ------------------------------------------------------------------------

\* A worker is inside check_cache_or_build_now or run_worker's bookkeeping.
InStep(w) == wpc[w] \in {"retrieve", "build", "insert", "finish"}

AllBuilt == \A t \in tasks : is_built[t]

DependenciesBuilt(t) == \A d \in depends_on[t] : is_built[d]

\* C1: a task is taken from pending_tasks and started by a worker only after
\* every task in its depends_on has is_built = true: every task that is
\* pending, and every task a worker holds, has all its dependencies built.
C1_StartedOnlyAfterDependencies ==
    /\ \A i \in 1 .. Len(pending_tasks) : DependenciesBuilt(pending_tasks[i])
    /\ \A w \in Workers : InStep(w) => DependenciesBuilt(wtask[w])

\* A worker has started a task that has dependencies.
C1_Witness ==
    \E w \in Workers : wpc[w] = "retrieve" /\ depends_on[wtask[w]] # {}

\* C2: when no build step fails, every task gets built and conduct_build
\* returns Ok: once conduct_build has returned without any build step having
\* failed, it has returned Ok and every task of the plan is built.
C2_ReturnsOkWithoutStepFailure ==
    (mainpc = "returned" /\ ~step_failed) => (main_result = "Ok" /\ AllBuilt)

\* The part of C2 before maybe_gc: under fair scheduling, when no build step
\* fails the main thread leaves wait_for_workers with every task built.
C2_DrainsWithoutStepFailure ==
    <>(step_failed \/ (mainpc \in {"gc", "returned"} /\ AllBuilt /\ ~error_occurred))

\* C3: when a build step has returned an error to its worker, conduct_build
\* returns failure without invoking maybe_gc: a process that has ended after
\* such an error ended by conduct_build returning Err, maybe_gc not called.
C3_FailureIsReturned ==
    (error_returned /\ (~Alive \/ mainpc = "returned"))
        => (mainpc = "returned" /\ main_result = "Err" /\ ~gc_invoked)

\* The part of C3 about maybe_gc: it is not invoked once a build step has
\* returned an error.
C3_NoGcAfterError ==
    error_returned => ~gc_invoked

\* The part of C3 that holds of a process no build_rule terminates: under
\* fair scheduling conduct_build returns failure.
C3_ReturnsErrUnlessExit ==
    error_returned ~> (~Alive \/ (mainpc = "returned" /\ main_result = "Err"))

\* The part of C3 about the flag: error_occurred, once set, stays set.
C3_ErrorOccurredIsStable ==
    [][error_occurred => error_occurred']_vars

\* C4: after the first failure (error_occurred set, pending_tasks cleared) no
\* task is pushed onto pending_tasks and no task that was not already running
\* is started.
C4_NothingStartsAfterFailure ==
    [][error_occurred =>
          (pending_tasks' = << >> /\ running_tasks' \subseteq running_tasks)]_vars

\* C16: an I/O error raised during maybe_gc does not fail the build: once
\* every task was built and maybe_gc was called, conduct_build returns Ok
\* whatever maybe_gc returned.
C16_GcErrorDoesNotFailTheBuild ==
    (mainpc = "returned" /\ gc_invoked /\ AllBuilt /\ ~error_occurred)
        => main_result = "Ok"

\* maybe_gc is called only when every task is built and no error occurred.
C16_GcOnlyAfterSuccess ==
    gc_invoked => (AllBuilt /\ ~error_occurred /\ ~step_failed)

\* C5: the main thread leaves wait_for_workers only when pending_tasks and
\* running_tasks are empty and no worker is inside a retrieve, run or insert
\* step, so maybe_gc never runs concurrently with a worker's step.
C5_MainLeavesOnlyWhenDrained ==
    mainpc \in {"gc", "returned"} =>
        /\ pending_tasks = << >>
        /\ running_tasks = {}
        /\ \A w \in Workers : ~InStep(w)

\* The main thread is in maybe_gc after the workers built a plan of several
\* tasks.
C5_Witness ==
    mainpc = "gc" /\ Cardinality(tasks) >= 2 /\ AllBuilt

\* ------------------------------------------------------------------------
\* Rules, paths and file contents of the cache model
\* ------------------------------------------------------------------------

\* The rules of the Hexmake file (ast/hexmake_file.rs, HexRule): "main" is
\* built from an output of "lib" and has two outputs.
Rules ==
    [ lib  |-> [ outputs  |-> << "out/lib" >>,
                 inputs   |-> << "lib.c" >>,
                 commands |-> << "cc lib.c -o out/lib" >> ],
      main |-> [ outputs  |-> << "out/main", "out/main.map" >>,
                 inputs   |-> << "out/lib" >>,
                 commands |-> << "ld out/lib -o out/main" >> ] ]

RuleNames == DOMAIN Rules

OutputPaths == UNION { Range(Rules[r].outputs) : r \in RuleNames }

\* HexPath::is_output is false for source paths.
SourcePaths == (UNION { Range(Rules[r].inputs) : r \in RuleNames }) \ OutputPaths

WsPaths == OutputPaths \cup SourcePaths

\* The contents of a file; in ws, 0 stands for "no file at this path".
Contents == 1 .. MaxContent

FileOrNone == 0 .. MaxContent

\* BuildCache::new: the two directories under the root .hex/cache. A cache
\* path is a directory and a file name in it.
OutputsDir == << ".hex", "cache", "outputs" >>

InputmapsDir == << ".hex", "cache", "inputmaps" >>

\* The text of a file is a sequence of tokens: a hash is one token (its 64
\* hex digits), the newline character is the token NL.
NL == << >>

\* The state of the file system as one value.
Fs == [ ws |-> ws, outs |-> cache_outputs, maps |-> cache_inputmaps, clock |-> clock ]

\* ------------------------------------------------------------------------
\* VirtualFileSystem (file_system/posix.rs, file_system/fake.rs)
\* ------------------------------------------------------------------------

\* exists on a workspace path.
exists(fs, path) == fs.ws[path] # 0

\* FakeFileSystem::write stamps the file with the clock and advances it. The
\* posix modification time is the wall clock in seconds, which does not
\* advance within a run of the model.
AfterWrite(fs) == IF fs_kind = "fake" THEN fs.clock + 1 ELSE fs.clock

\* write or copy onto a workspace path.
WriteWorkspace(fs, path, contents) ==
    [fs EXCEPT !.ws[path] = contents, !.clock = AfterWrite(fs)]

\* copy of a workspace file into the outputs directory.
WriteOutput(fs, name, contents) ==
    [fs EXCEPT !.outs = (name :> [contents |-> contents, modtime |-> fs.clock]) @@ fs.outs,
               !.clock = AfterWrite(fs)]

\* write of an inputmap file.
WriteInputmap(fs, name, text) ==
    [fs EXCEPT !.maps = (name :> text) @@ fs.maps, !.clock = AfterWrite(fs)]

\* remove_file on a workspace path: fs::remove_file returns an error when
\* there is no file at the path; FakeFileSystem::remove_file returns Ok.
remove_file(fs, path) ==
    IF fs_kind = "posix" /\ ~exists(fs, path)
    THEN [ok |-> FALSE, fs |-> fs]
    ELSE [ok |-> TRUE, fs |-> [fs EXCEPT !.ws[path] = 0]]

\* A function without one of its keys.
Without(f, keys) == [k \in DOMAIN f \ keys |-> f[k]]

\* The names of the files in a directory of the cache.
FilesIn(fs, dir) ==
    IF dir = OutputsDir THEN DOMAIN fs.outs
    ELSE IF dir = InputmapsDir THEN DOMAIN fs.maps
    ELSE {}

\* list_dir. FakeFileSystem returns the keys under the directory's prefix.
\* PosixFileSystem appends each entry's path, which already starts with the
\* directory, to the directory again.
list_dir(fs, dir) ==
    IF fs_kind = "fake"
    THEN { [dir |-> dir, name |-> n] : n \in FilesIn(fs, dir) }
    ELSE { [dir |-> dir \o dir, name |-> n] : n \in FilesIn(fs, dir) }

is_file(fs, path) == path.name \in FilesIn(fs, path.dir)

\* file_size: the number of bytes of the file.
file_size(fs, path) == fs.outs[path.name].contents * SizeUnitMiB * 1024 * 1024

modtime(fs, path) == fs.outs[path.name].modtime

\* ------------------------------------------------------------------------
\* BuildHash (cache/build_hash.rs). SHA-256 is taken to be free of
\* collisions: a hash is modelled by the stream that was hashed.
\* ------------------------------------------------------------------------

\* hash_tree of a file: its path, the tag 0, its contents.
hash_tree(fs, path) == << path, fs.ws[path] >>

\* hash_trees fails when one of the paths does not exist.
InputsExist(fs, r) ==
    \A i \in 1 .. Len(Rules[r].inputs) : exists(fs, Rules[r].inputs[i])

\* BuildHash::hash: hash_rule (outputs, inputs, commands), hash_env, and
\* hash_trees of the inputs.
hash(fs, r) ==
    << Rules[r].outputs, Rules[r].inputs, Rules[r].commands, env,
       [i \in 1 .. Len(Rules[r].inputs) |-> hash_tree(fs, Rules[r].inputs[i])] >>

\* hex_string_for_digest: the hash as a string, here of one token.
hex_string_for_digest(digest) == << digest >>

\* str::split on the newline: the pieces between newlines, the last one
\* being what follows the last newline.
RECURSIVE Split(_)
Split(text) ==
    IF \A i \in 1 .. Len(text) : text[i] # NL
    THEN << text >>
    ELSE LET i == CHOOSE k \in 1 .. Len(text) :
                      text[k] = NL /\ \A j \in 1 .. (k - 1) : text[j] # NL
         IN  << SubSeq(text, 1, i - 1) >> \o Split(SubSeq(text, i + 1, Len(text)))

\* ------------------------------------------------------------------------
\* BuildCache (cache/build_cache.rs)
\* ------------------------------------------------------------------------

\* retrieve_outputs, lines 54-58: for each pair of the zip of the rule's
\* outputs with the pieces of the inputmap, remove the file at the output
\* path and copy the cached file there. The loop ends with the shorter of
\* the two lists; a `?` returns at the first error.
RECURSIVE RestoreOutputs(_, _, _, _)
RestoreOutputs(fs, outputs, output_hashes, i) ==
    IF i > Len(outputs) \/ i > Len(output_hashes)
    THEN [fs |-> fs, ret |-> "true"]
    ELSE LET removed == remove_file(fs, outputs[i])
             cached == output_hashes[i]
         IN  IF ~removed.ok
             THEN [fs |-> fs, ret |-> "err"]
             ELSE IF cached \notin DOMAIN fs.outs
             THEN [fs |-> removed.fs, ret |-> "err"]
             ELSE RestoreOutputs(
                      WriteWorkspace(removed.fs, outputs[i], fs.outs[cached].contents),
                      outputs, output_hashes, i + 1)

\* retrieve_outputs: "true" on a hit, "false" on a miss, "err" for an
\* io::Error.
retrieve_outputs(fs, r) ==
    IF ~InputsExist(fs, r)
    THEN [fs |-> fs, ret |-> "err"]
    ELSE LET inputmap_path == hex_string_for_digest(hash(fs, r))
         IN  IF inputmap_path \notin DOMAIN fs.maps
             THEN [fs |-> fs, ret |-> "false"]
             ELSE RestoreOutputs(fs, Rules[r].outputs, Split(fs.maps[inputmap_path]), 1)

\* insert_outputs, line 73: the line added to the inputmap for one output.
AddToInputmapMutant(inputmap, output_hash) ==
    hex_string_for_digest(output_hash) \o << NL >> \o inputmap
AddToInputmap(inputmap, output_hash) ==
    inputmap \o hex_string_for_digest(output_hash) \o << NL >>

\* insert_outputs, lines 66-74: hash each output, copy it into outputs/ under
\* its hash, add the hash to the inputmap.
RECURSIVE CopyOutputs(_, _, _, _)
CopyOutputs(fs, outputs, i, inputmap) ==
    IF i > Len(outputs)
    THEN [ok |-> TRUE, fs |-> fs, inputmap |-> inputmap]
    ELSE IF ~exists(fs, outputs[i])
    THEN [ok |-> FALSE, fs |-> fs, inputmap |-> inputmap]
    ELSE LET output_hash == hash_tree(fs, outputs[i])
         IN  CopyOutputs(
                 WriteOutput(fs, hex_string_for_digest(output_hash), fs.ws[outputs[i]]),
                 outputs, i + 1, AddToInputmap(inputmap, output_hash))

\* insert_outputs: "ok", or "err" for an io::Error.
insert_outputs(fs, r) ==
    LET copied == CopyOutputs(fs, Rules[r].outputs, 1, << >>)
    IN  IF ~copied.ok \/ ~InputsExist(copied.fs, r)
        THEN [fs |-> copied.fs, ret |-> "err"]
        ELSE [fs  |-> WriteInputmap(copied.fs,
                                    hex_string_for_digest(hash(copied.fs, r)),
                                    copied.inputmap),
              ret |-> "ok"]

\* maybe_gc, lines 85-86.
MAX_SIZE == 200 * 1024 * 1024

TARGET_SIZE == 100 * 1024 * 1024

\* maybe_gc, line 106: sort_by_key on the modification time, oldest first.
\* (The sort is stable; the fake file system never gives two files the same
\* modification time.)
RECURSIVE SortNewestFirstMutant(_, _)
SortNewestFirstMutant(fs, files) ==
    IF files = {} THEN << >>
    ELSE LET newest == CHOOSE f \in files :
                           \A g \in files : modtime(fs, f) >= modtime(fs, g)
         IN  << newest >> \o SortNewestFirstMutant(fs, files \ {newest})
RECURSIVE SortByModtime(_, _)
SortByModtime(fs, files) ==
    IF files = {} THEN << >>
    ELSE LET oldest == CHOOSE f \in files :
                           \A g \in files : modtime(fs, f) <= modtime(fs, g)
         IN  << oldest >> \o SortByModtime(fs, files \ {oldest})

RECURSIVE TotalSize(_, _)
TotalSize(fs, files) ==
    IF files = {} THEN 0
    ELSE LET f == CHOOSE x \in files : TRUE
         IN  file_size(fs, f) + TotalSize(fs, files \ {f})

\* maybe_gc, line 111: the test that ends the deletions.
UnderTargetMutant(total_size) == total_size <= MAX_SIZE
UnderTarget(total_size) == total_size <= TARGET_SIZE

\* maybe_gc, lines 109-117: walk the files oldest first; delete while the
\* total is above TARGET_SIZE, keep the rest.
RECURSIVE Evict(_, _, _, _, _)
Evict(fs, output_files, i, total_size, remaining_outputs) ==
    IF i > Len(output_files)
    THEN [fs |-> fs, remaining_outputs |-> remaining_outputs]
    ELSE IF UnderTarget(total_size)
    THEN Evict(fs, output_files, i + 1, total_size,
               remaining_outputs \cup {output_files[i]})
    ELSE Evict([fs EXCEPT !.outs = Without(fs.outs, {output_files[i].name})],
               output_files, i + 1,
               total_size - file_size(fs, output_files[i]), remaining_outputs)

\* cleanup_orphaned_inputmaps, lines 151-162: the output paths an inputmap
\* names, one per non-empty piece.
InputmapOutputs(text) ==
    LET pieces == Split(text)
    IN  { [dir |-> OutputsDir, name |-> pieces[i]] :
              i \in { k \in 1 .. Len(pieces) : pieces[k] # << >> } }

\* cleanup_orphaned_inputmaps, lines 158-161.
HasMissingOutputMutant(text, existing_outputs) == FALSE
HasMissingOutputAlwaysMutant(text, existing_outputs) == TRUE
HasMissingOutput(text, existing_outputs) ==
    \E output_path \in InputmapOutputs(text) : output_path \notin existing_outputs

\* cleanup_orphaned_inputmaps: delete the inputmaps that name a missing
\* output; return the outputs the others name.
CleanupOrphanedInputmapsMutant(fs, existing_outputs) ==
    [ fs |-> fs,
      referenced_outputs |->
          UNION { InputmapOutputs(fs.maps[m.name]) :
                      m \in { x \in list_dir(fs, InputmapsDir) : is_file(fs, x) } } ]
cleanup_orphaned_inputmaps(fs, existing_outputs) ==
    LET inputmaps == { m \in list_dir(fs, InputmapsDir) : is_file(fs, m) }
        orphaned == { m \in inputmaps :
                          HasMissingOutput(fs.maps[m.name], existing_outputs) }
    IN  [ fs |-> [fs EXCEPT !.maps = Without(fs.maps, { m.name : m \in orphaned })],
          referenced_outputs |->
              UNION { InputmapOutputs(fs.maps[m.name]) : m \in inputmaps \ orphaned } ]

\* cleanup_orphaned_outputs.
CleanupOrphanedOutputsMutant(fs, existing_outputs, referenced_outputs) == fs
cleanup_orphaned_outputs(fs, existing_outputs, referenced_outputs) ==
    [fs EXCEPT !.outs =
        Without(fs.outs, { o.name : o \in existing_outputs \ referenced_outputs })]

\* maybe_gc, lines 94-101: the files list_dir returns for outputs/ that are
\* files.
OutputFiles(fs) == { f \in list_dir(fs, OutputsDir) : is_file(fs, f) }

\* maybe_gc, line 104: the trigger.
OverLimitMutant(total_size) == total_size > TARGET_SIZE
OverLimit(total_size) == total_size > MAX_SIZE

\* maybe_gc.
maybe_gc(fs) ==
    LET output_files == OutputFiles(fs)
        total_size == TotalSize(fs, output_files)
    IN  IF OverLimit(total_size)
        THEN LET evicted == Evict(fs, SortByModtime(fs, output_files), 1,
                                  total_size, {})
                 cleaned == cleanup_orphaned_inputmaps(evicted.fs,
                                                       evicted.remaining_outputs)
             IN  cleanup_orphaned_outputs(cleaned.fs, evicted.remaining_outputs,
                                          cleaned.referenced_outputs)
        ELSE fs

\* ------------------------------------------------------------------------
\* The cache in use: calls of its operations, and the workspace changing
\* ------------------------------------------------------------------------

\* The environment projections a Hexmake file can ask for.
Envs == { << << "CC", "cc" >> >> }

\* The hashes an inputmap text lists: its non-empty pieces.
HashLines(text) == SelectSeq(Split(text), LAMBDA piece : piece # << >>)

NoOp ==
    [ op |-> "none", rule |-> "", ret |-> "", map |-> << >>, had_map |-> FALSE,
      short |-> FALSE, present |-> FALSE, changed |-> FALSE, missing |-> FALSE,
      fired |-> FALSE, over |-> FALSE, had_dangling |-> FALSE,
      had_orphan |-> FALSE ]

\* The files of outputs/, whatever list_dir says of them, and their total
\* size.
CachedFiles == { [dir |-> OutputsDir, name |-> n] : n \in DOMAIN cache_outputs }

CacheSize == TotalSize(Fs, CachedFiles)

\* An inputmap that names a file outputs/ does not hold.
Dangling(name) ==
    \E i \in 1 .. Len(HashLines(cache_inputmaps[name])) :
        HashLines(cache_inputmaps[name])[i] \notin DOMAIN cache_outputs

\* A file of outputs/ that an inputmap names.
Referenced(n) ==
    \E name \in DOMAIN cache_inputmaps :
        \E i \in 1 .. Len(HashLines(cache_inputmaps[name])) :
            HashLines(cache_inputmaps[name])[i] = n

NoSnap == [ valid |-> FALSE, map |-> << >>, bytes |-> << >> ]

Install(fs) ==
    /\ ws' = fs.ws
    /\ cache_outputs' = fs.outs
    /\ cache_inputmaps' = fs.maps
    /\ clock' = fs.clock

\* The state when BuildCache::new has returned on a new cache: any workspace,
\* an empty cache. The clock counts the writes since then.
CacheInit ==
    /\ PlanUnused
    /\ ConductorUnused
    /\ BuildUnused
    /\ fs_kind \in {"posix", "fake"}
    /\ env \in Envs
    /\ ws \in [WsPaths -> FileOrNone]
    /\ cache_outputs = << >>
    /\ cache_inputmaps = << >>
    /\ clock = 0
    /\ edits = 0
    /\ last_op = NoOp
    /\ snap = [r \in RuleNames |-> NoSnap]

\* A call of retrieve_outputs(rule).
RetrieveOutputs(r) ==
    LET res == retrieve_outputs(Fs, r)
        map == IF InputsExist(Fs, r) THEN hex_string_for_digest(hash(Fs, r)) ELSE << >>
        had_map == map \in DOMAIN cache_inputmaps
    IN  /\ res.fs.clock <= MaxClock
        /\ Install(res.fs)
        /\ last_op' =
               [ op |-> "retrieve", rule |-> r, ret |-> res.ret, map |-> map,
                 had_map |-> had_map,
                 short |-> had_map /\
                     Len(HashLines(cache_inputmaps[map])) < Len(Rules[r].outputs),
                 present |-> \A i \in 1 .. Len(Rules[r].outputs) :
                                 exists(Fs, Rules[r].outputs[i]),
                 changed |-> snap[r].valid /\
                     \E i \in 1 .. Len(Rules[r].outputs) :
                         ws[Rules[r].outputs[i]] # snap[r].bytes[i],
                 missing |-> had_map /\
                     \E i \in 1 .. Len(HashLines(cache_inputmaps[map])) :
                         HashLines(cache_inputmaps[map])[i] \notin DOMAIN cache_outputs ]
        /\ UNCHANGED << fs_kind, env, edits, snap >>
        /\ UNCHANGED << condVars, buildVars, planVars >>

\* A call of insert_outputs(rule).
InsertOutputs(r) ==
    LET res == insert_outputs(Fs, r)
    IN  /\ res.fs.clock <= MaxClock
        /\ Install(res.fs)
        /\ last_op' = [NoOp EXCEPT !.op = "insert", !.rule = r, !.ret = res.ret]
        /\ snap' = IF res.ret = "ok"
                   THEN [snap EXCEPT ![r] =
                            [ valid |-> TRUE,
                              map   |-> hex_string_for_digest(hash(Fs, r)),
                              bytes |-> [i \in 1 .. Len(Rules[r].outputs) |->
                                            ws[Rules[r].outputs[i]]] ]]
                   ELSE snap
        /\ UNCHANGED << fs_kind, env, edits >>
        /\ UNCHANGED << condVars, buildVars, planVars >>

\* A call of maybe_gc().
MaybeGc ==
    LET fs == maybe_gc(Fs)
        collected == fs.outs # cache_outputs \/ fs.maps # cache_inputmaps
    IN  /\ Install(fs)
        /\ last_op' =
               [NoOp EXCEPT !.op = "gc",
                            !.ret = IF collected THEN "collected" ELSE "kept",
                            !.fired = OverLimit(TotalSize(Fs, OutputFiles(Fs))),
                            !.over = CacheSize > MAX_SIZE,
                            !.had_dangling =
                                \E name \in DOMAIN cache_inputmaps : Dangling(name),
                            !.had_orphan =
                                \E n \in DOMAIN cache_outputs : ~Referenced(n)]
        /\ snap' = IF collected THEN [r \in RuleNames |-> NoSnap] ELSE snap
        /\ UNCHANGED << fs_kind, env, edits >>
        /\ UNCHANGED << condVars, buildVars, planVars >>

\* The names of the files insert_outputs can put in outputs/: the hash of an
\* output path and of contents.
OutputNames ==
    { hex_string_for_digest(<< path, contents >>) :
          path \in OutputPaths, contents \in Contents }

\* The inputmap texts insert_outputs can write for a rule: one line for each
\* output, in the order of the rule's outputs.
RECURSIVE InputmapText(_, _, _)
InputmapText(outputs, bytes, i) ==
    IF i = 0 THEN << >>
    ELSE AddToInputmap(InputmapText(outputs, bytes, i - 1),
                       << outputs[i], bytes[i] >>)

InputmapTexts(r) ==
    { InputmapText(Rules[r].outputs, bytes, Len(Rules[r].outputs)) :
          bytes \in [1 .. Len(Rules[r].outputs) -> Contents] }

\* A cache directory as maybe_gc can find it when it is called, be it left
\* by earlier runs, filled by a test or cleaned by hand: any files in
\* outputs/ with any modification times (their sizes are those of their
\* contents), and for each rule at most one inputmap, which may name files
\* that outputs/ does not hold.
GcInit ==
    /\ PlanUnused
    /\ ConductorUnused
    /\ BuildUnused
    /\ fs_kind \in {"posix", "fake"}
    /\ env \in Envs
    /\ ws = [path \in WsPaths |-> 1]
    /\ \E names \in SUBSET OutputNames :
           \E times \in [names -> 1 .. MaxModtime] :
               cache_outputs =
                   [n \in names |-> [contents |-> n[1][2], modtime |-> times[n]]]
    /\ \E rules \in SUBSET RuleNames :
           \E text \in [rules -> UNION { InputmapTexts(r) : r \in RuleNames }] :
               /\ \A r \in rules : text[r] \in InputmapTexts(r)
               /\ cache_inputmaps =
                      [k \in { hex_string_for_digest(hash([ws |-> ws], r)) : r \in rules } |->
                          text[CHOOSE r \in rules :
                                   hex_string_for_digest(hash([ws |-> ws], r)) = k]]
    /\ clock = MaxModtime + 1
    /\ edits = 0
    /\ last_op = NoOp
    /\ snap = [r \in RuleNames |-> NoSnap]

GcNext == MaybeGc

\* maybe_gc called on any cache directory.
GcSpec == GcInit /\ [][GcNext]_vars

\* Something outside the cache (a build command, an editor, a test) writes a
\* workspace file.
WriteFile(path, contents) ==
    /\ ws[path] # contents
    /\ edits < MaxEdits
    /\ AfterWrite(Fs) <= MaxClock
    /\ Install(WriteWorkspace(Fs, path, contents))
    /\ edits' = edits + 1
    /\ last_op' = NoOp
    /\ UNCHANGED << fs_kind, env, snap >>
    /\ UNCHANGED << condVars, buildVars, planVars >>

\* Something outside the cache removes a workspace file.
RemoveFile(path) ==
    /\ ws[path] # 0
    /\ edits < MaxEdits
    /\ ws' = [ws EXCEPT ![path] = 0]
    /\ edits' = edits + 1
    /\ last_op' = NoOp
    /\ UNCHANGED << fs_kind, env, cache_outputs, cache_inputmaps, clock, snap >>
    /\ UNCHANGED << condVars, buildVars, planVars >>

CacheNext ==
    \/ \E r \in RuleNames : RetrieveOutputs(r)
    \/ \E r \in RuleNames : InsertOutputs(r)
    \/ MaybeGc
    \/ \E path \in WsPaths, contents \in Contents : WriteFile(path, contents)
    \/ \E path \in WsPaths : RemoveFile(path)

\* The cache used through its three operations, on either file system.
CacheSpec == CacheInit /\ [][CacheNext]_vars

\* Something outside the cache cuts an inputmap file short (a damaged or
\* hand-edited cache): the file keeps a proper prefix of its text.
TruncateInputmap(name, length) ==
    /\ edits < MaxEdits
    /\ length < Len(cache_inputmaps[name])
    /\ cache_inputmaps' =
           [cache_inputmaps EXCEPT ![name] = SubSeq(cache_inputmaps[name], 1, length)]
    /\ edits' = edits + 1
    /\ last_op' = NoOp
    /\ snap' = [r \in RuleNames |-> NoSnap]
    /\ UNCHANGED << fs_kind, env, ws, cache_outputs, clock >>
    /\ UNCHANGED << condVars, buildVars, planVars >>

\* Something outside the cache removes a file of outputs/ (a damaged or
\* hand-cleaned cache): the inputmaps that name it stay.
RemoveCachedOutput(name) ==
    /\ edits < MaxEdits
    /\ cache_outputs' = Without(cache_outputs, {name})
    /\ edits' = edits + 1
    /\ last_op' = NoOp
    /\ snap' = [r \in RuleNames |-> NoSnap]
    /\ UNCHANGED << fs_kind, env, ws, cache_inputmaps, clock >>
    /\ UNCHANGED << condVars, buildVars, planVars >>

CorruptNext ==
    \/ \E r \in RuleNames : RetrieveOutputs(r)
    \/ \E r \in RuleNames : InsertOutputs(r)
    \/ MaybeGc
    \/ \E path \in WsPaths, contents \in Contents : WriteFile(path, contents)
    \/ \E path \in WsPaths : RemoveFile(path)
    \/ \E name \in DOMAIN cache_inputmaps, length \in 0 .. (2 * Cardinality(OutputPaths)) :
           TruncateInputmap(name, length)
    \/ \E name \in DOMAIN cache_outputs : RemoveCachedOutput(name)

\* The cache in use while its files can be damaged from outside.
CorruptSpec == CacheInit /\ [][CorruptNext]_vars

\* ------------------------------------------------------------------------
\* Properties of the cache
\* ------------------------------------------------------------------------

RetrievedRule == Rules[last_op.rule]

\* The contents the workspace holds at the outputs of a rule.
OutputBytes(r) == [i \in 1 .. Len(Rules[r].outputs) |-> ws[Rules[r].outputs[i]]]

\* The call just completed is a retrieve_outputs of a rule whose last
\* insert_outputs succeeded with the same rule, environment and input
\* contents (the same rule hash), nothing having been evicted since, and the
\* output files were all in place, modified or not.
RetrieveAfterInsert ==
    /\ last_op.op = "retrieve"
    /\ snap[last_op.rule].valid
    /\ snap[last_op.rule].map = last_op.map
    /\ last_op.present

\* C7: when insert_outputs(rule) is followed by retrieve_outputs(rule) with
\* the rule, the environment projection and the input contents unchanged (the
\* workspace output files may have been modified), retrieve returns true and
\* every output path holds the bytes it held at the time of the insert.
C7_RetrieveRestoresInsertedBytes ==
    RetrieveAfterInsert =>
        /\ last_op.ret = "true"
        /\ OutputBytes(last_op.rule) = snap[last_op.rule].bytes

\* Such a retrieve_outputs has run on outputs that were modified after the
\* insert, for a rule with several outputs.
C7_Witness ==
    /\ RetrieveAfterInsert
    /\ last_op.changed
    /\ Len(RetrievedRule.outputs) > 1
    /\ last_op.ret = "true"

\* The contents the cache holds for the i-th output of the retrieved rule.
CachedBytes(i) ==
    cache_outputs[Split(cache_inputmaps[last_op.map])[i]].contents

\* C8: on a cache hit retrieve_outputs restores every output and returns
\* true, whether or not a file exists at each output path: an absent output
\* file is not an error.
C8_HitRestoresWhetherOrNotPresent ==
    (last_op.op = "retrieve" /\ last_op.had_map) =>
        /\ last_op.ret = "true"
        /\ \A i \in 1 .. Len(RetrievedRule.outputs) :
               ws[RetrievedRule.outputs[i]] = CachedBytes(i)

\* The case of C8 with every output file in place.
C8_HitRestoresWhenPresent ==
    (last_op.op = "retrieve" /\ last_op.had_map /\ last_op.present) =>
        /\ last_op.ret = "true"
        /\ \A i \in 1 .. Len(RetrievedRule.outputs) :
               ws[RetrievedRule.outputs[i]] = CachedBytes(i)

\* The case of C8 on the fake file system.
C8_HitRestoresOnFake ==
    (fs_kind = "fake" /\ last_op.op = "retrieve" /\ last_op.had_map) =>
        /\ last_op.ret = "true"
        /\ \A i \in 1 .. Len(RetrievedRule.outputs) :
               ws[RetrievedRule.outputs[i]] = CachedBytes(i)

\* An inputmap text is a list of lines, each one hash followed by a newline,
\* and each hash names a file in outputs/.
WellFormedInputmap(text) ==
    LET pieces == Split(text)
    IN  /\ pieces[Len(pieces)] = << >>
        /\ \A i \in 1 .. (Len(pieces) - 1) :
               /\ Len(pieces[i]) = 1
               /\ pieces[i] \in DOMAIN cache_outputs

\* C9: starting from an empty cache, after any sequence of completed
\* insert_outputs, retrieve_outputs and maybe_gc calls, every line of every
\* file in inputmaps/ is a non-empty hash naming a file that exists in
\* outputs/.
C9_InputmapsNameExistingOutputs ==
    \A name \in DOMAIN cache_inputmaps : WellFormedInputmap(cache_inputmaps[name])

\* maybe_gc has collected files and has left an inputmap in place.
C9_Witness ==
    /\ last_op.op = "gc"
    /\ last_op.ret = "collected"
    /\ cache_inputmaps # << >>

\* C10: when the inputmap holds fewer lines than the rule has outputs,
\* retrieve_outputs deletes the inputmap and returns false.
C10_ShortInputmapIsAMiss ==
    (last_op.op = "retrieve" /\ last_op.short) =>
        /\ last_op.ret = "false"
        /\ last_op.map \notin DOMAIN cache_inputmaps

\* C11: when the inputmap found for a rule names an output hash whose file
\* is missing from outputs/, retrieve_outputs returns false (a miss, not an
\* error) and deletes the inputmap, so that the task is then built.
C11_MissingCachedOutputIsAMiss ==
    (last_op.op = "retrieve" /\ last_op.missing) =>
        /\ last_op.ret = "false"
        /\ last_op.map \notin DOMAIN cache_inputmaps

\* What the code does in the case of C11: it returns the io::Error of the
\* copy (or of remove_file) and keeps the inputmap.
C11_MissingCachedOutputIsAnError ==
    (last_op.op = "retrieve" /\ last_op.missing) =>
        /\ last_op.ret = "err"
        /\ last_op.map \in DOMAIN cache_inputmaps

\* C12: whenever maybe_gc finds the total size of outputs/ greater than
\* MAX_SIZE, the total size of the files that remain in outputs/ when it
\* returns is at most TARGET_SIZE.
C12_TriggeredGcReachesTarget ==
    (last_op.op = "gc" /\ last_op.fired) => CacheSize <= TARGET_SIZE

\* A triggered maybe_gc has returned and has left files in outputs/.
C12_Witness ==
    /\ last_op.op = "gc"
    /\ last_op.fired
    /\ cache_outputs # << >>

\* On the posix file system the paths list_dir returns are not files, so
\* maybe_gc counts a total of zero and its trigger does not fire.
GcOnPosixFindsNoFile ==
    (last_op.op = "gc" /\ fs_kind = "posix") =>
        (~last_op.fired /\ last_op.ret = "kept")

\* C13: after a maybe_gc whose trigger fired, every inputmap that still
\* exists names only files that still exist in outputs/.
C13_TriggeredGcLeavesNoDanglingInputmap ==
    (last_op.op = "gc" /\ last_op.fired) =>
        \A name \in DOMAIN cache_inputmaps : ~Dangling(name)

\* A triggered maybe_gc has returned on a cache that held an inputmap naming
\* a missing file, and has left another inputmap in place.
C13_Witness ==
    /\ last_op.op = "gc"
    /\ last_op.fired
    /\ last_op.had_dangling
    /\ cache_inputmaps # << >>

\* C14: after a maybe_gc whose trigger fired, every file that still exists
\* in outputs/ is named by at least one inputmap that still exists.
C14_TriggeredGcLeavesNoOrphanOutput ==
    (last_op.op = "gc" /\ last_op.fired) =>
        \A n \in DOMAIN cache_outputs : Referenced(n)

\* A triggered maybe_gc has returned on a cache that held a file no inputmap
\* named, and has left other files in outputs/.
C14_Witness ==
    /\ last_op.op = "gc"
    /\ last_op.fired
    /\ last_op.had_orphan
    /\ cache_outputs # << >>
    /\ cache_inputmaps # << >>

\* C15: when the total size of outputs/ is at most MAX_SIZE, maybe_gc
\* deletes no output file and no inputmap, even if inputmaps name missing
\* files and files of outputs/ are named by no inputmap.
C15_GcUnderLimitChangesNothing ==
    (last_op.op = "gc" /\ ~last_op.over) => last_op.ret = "kept"

\* maybe_gc has returned on a cache under the limit that held an inputmap
\* naming a missing file and a file no inputmap named; both are still there.
C15_Witness ==
    /\ last_op.op = "gc"
    /\ ~last_op.over
    /\ last_op.had_dangling
    /\ last_op.had_orphan
    /\ \E name \in DOMAIN cache_inputmaps : Dangling(name)
    /\ \E n \in DOMAIN cache_outputs : ~Referenced(n)

\* ------------------------------------------------------------------------
\* Builds run one after the other on one workspace (main.rs): each build
\* plans its target, runs check_cache_or_build_now on every task of the plan
\* once its dependencies are done, then calls maybe_gc.
\* ------------------------------------------------------------------------

\* plan_one_target, lines 102-108: the rules that make the inputs of a rule.
RuleDependsOn(r) ==
    { q \in RuleNames :
          Range(Rules[r].inputs) \cap OutputPaths \cap Range(Rules[q].outputs) # {} }

\* plan_build for one target given by its rule name: the rule and, through
\* their inputs, the rules it needs.
RECURSIVE PlanTasks(_)
PlanTasks(r) == {r} \cup UNION { PlanTasks(q) : q \in RuleDependsOn(r) }

TaskDone(r) == task_outcome[r] \in {"hit", "built"}

\* The state when Hexmake is first run: any workspace, a new cache, on the
\* posix file system (main_internal, line 46).
BuildInit ==
    /\ PlanUnused
    /\ ConductorUnused
    /\ fs_kind = "posix"
    /\ env \in Envs
    /\ ws \in [WsPaths -> FileOrNone]
    /\ cache_outputs = << >>
    /\ cache_inputmaps = << >>
    /\ clock = 0
    /\ edits = 0
    /\ last_op = NoOp
    /\ snap = [r \in RuleNames |-> NoSnap]
    /\ phase = "idle"
    /\ build_no = 0
    /\ target = ""
    /\ task_outcome = [r \in RuleNames |-> "none"]
    /\ src_changed = FALSE
    /\ output_removed = FALSE
    /\ second = FALSE

\* main_internal: a run of Hexmake on a target starts.
StartBuild(t) ==
    /\ phase # "building"
    /\ build_no < MaxBuilds
    /\ phase' = "building"
    /\ build_no' = build_no + 1
    /\ target' = t
    /\ task_outcome' = [r \in RuleNames |-> "none"]
    /\ second' = (phase = "done" /\ target = t /\ ~src_changed)
    /\ UNCHANGED << src_changed, output_removed >>
    /\ UNCHANGED << condVars, cacheVars, planVars >>

\* build_rule (exec/rule_builder.rs): copy the inputs into the work directory,
\* run the commands, copy the outputs back. The process exits with 2 when an
\* input is missing or an output was not made, and with 1 when a command
\* fails; otherwise every output holds what the commands made.
BuildRuleResults(fs, r) ==
    IF ~InputsExist(fs, r)
    THEN { [exit |-> 2, fs |-> fs] }
    ELSE { [exit |-> 1, fs |-> fs], [exit |-> 2, fs |-> fs] } \cup
         { [exit |-> 0,
            fs |-> [fs EXCEPT !.ws = [path \in WsPaths |->
                       IF \E i \in 1 .. Len(Rules[r].outputs) : Rules[r].outputs[i] = path
                       THEN made[CHOOSE i \in 1 .. Len(Rules[r].outputs) :
                                     Rules[r].outputs[i] = path]
                       ELSE fs.ws[path]]]] :
           made \in [1 .. Len(Rules[r].outputs) -> Contents] }

\* check_cache_or_build_now on a task whose dependencies are done.
CheckCacheOrBuildNow(r) ==
    /\ phase = "building"
    /\ r \in PlanTasks(target)
    /\ task_outcome[r] = "none"
    /\ \A q \in RuleDependsOn(r) : TaskDone(q)
    /\ LET got == retrieve_outputs(Fs, r)
       IN  CASE got.ret = "true" ->
                   /\ Install(got.fs)
                   /\ task_outcome' = [task_outcome EXCEPT ![r] = "hit"]
                   /\ UNCHANGED phase
             [] got.ret = "err" ->
                   /\ Install(got.fs)
                   /\ task_outcome' = [task_outcome EXCEPT ![r] = "err"]
                   /\ phase' = "failed"
             [] got.ret = "false" ->
                   \E ran \in BuildRuleResults(got.fs, r) :
                       IF ran.exit # 0
                       THEN /\ Install(ran.fs)
                            /\ task_outcome' = [task_outcome EXCEPT ![r] = "exit"]
                            /\ phase' = "exited"
                       ELSE LET put == insert_outputs(ran.fs, r)
                            IN  /\ Install(put.fs)
                                /\ IF put.ret = "ok"
                                   THEN /\ task_outcome' =
                                               [task_outcome EXCEPT ![r] = "built"]
                                        /\ UNCHANGED phase
                                   ELSE /\ task_outcome' =
                                               [task_outcome EXCEPT ![r] = "err"]
                                        /\ phase' = "failed"
    /\ UNCHANGED << fs_kind, env, edits, last_op, snap >>
    /\ UNCHANGED << build_no, target, src_changed, output_removed, second >>
    /\ UNCHANGED << condVars, planVars >>

\* conduct_build, lines 37-40: every task is done; maybe_gc, then Ok.
FinishBuild ==
    /\ phase = "building"
    /\ \A r \in PlanTasks(target) : TaskDone(r)
    /\ Install(maybe_gc(Fs))
    /\ phase' = "done"
    /\ src_changed' = FALSE
    /\ output_removed' = FALSE
    /\ UNCHANGED << fs_kind, env, edits, last_op, snap >>
    /\ UNCHANGED << build_no, target, task_outcome, second >>
    /\ UNCHANGED << condVars, planVars >>

\* Between two builds the user edits, adds or removes a source file.
EditSource(path, contents) ==
    /\ phase # "building"
    /\ edits < MaxEdits
    /\ ws[path] # contents
    /\ ws' = [ws EXCEPT ![path] = contents]
    /\ edits' = edits + 1
    /\ src_changed' = TRUE
    /\ UNCHANGED << fs_kind, env, cache_outputs, cache_inputmaps, clock, last_op, snap >>
    /\ UNCHANGED << phase, build_no, target, task_outcome, output_removed, second >>
    /\ UNCHANGED << condVars, planVars >>

\* Between two builds something overwrites an output file.
OverwriteOutput(path, contents) ==
    /\ phase # "building"
    /\ edits < MaxEdits
    /\ ws[path] # contents
    /\ ws' = [ws EXCEPT ![path] = contents]
    /\ edits' = edits + 1
    /\ UNCHANGED << fs_kind, env, cache_outputs, cache_inputmaps, clock, last_op, snap >>
    /\ UNCHANGED buildVars
    /\ UNCHANGED << condVars, planVars >>

\* Between two builds something removes an output file (rm -r out).
RemoveOutput(path) ==
    /\ phase # "building"
    /\ edits < MaxEdits
    /\ ws[path] # 0
    /\ ws' = [ws EXCEPT ![path] = 0]
    /\ edits' = edits + 1
    /\ output_removed' = TRUE
    /\ UNCHANGED << fs_kind, env, cache_outputs, cache_inputmaps, clock, last_op, snap >>
    /\ UNCHANGED << phase, build_no, target, task_outcome, src_changed, second >>
    /\ UNCHANGED << condVars, planVars >>

BuildNext ==
    \/ \E t \in RuleNames : StartBuild(t)
    \/ \E r \in RuleNames : CheckCacheOrBuildNow(r)
    \/ FinishBuild
    \/ \E path \in SourcePaths, contents \in FileOrNone : EditSource(path, contents)
    \/ \E path \in OutputPaths, contents \in Contents : OverwriteOutput(path, contents)
    \/ \E path \in OutputPaths : RemoveOutput(path)

\* Hexmake run several times on one workspace.
BuildSpec == BuildInit /\ [][BuildNext]_vars

\* ------------------------------------------------------------------------
\* Properties of repeated builds
\* ------------------------------------------------------------------------

\* Every task that has run in this build was retrieved from the cache: no
\* command was run, nothing was inserted, nothing failed.
OnlyHits ==
    /\ phase \notin {"failed", "exited"}
    /\ \A r \in RuleNames : task_outcome[r] \in {"none", "hit"}

\* C6: after one successful build of a target, a second build of the same
\* target with unchanged rules, environment projection and source inputs
\* runs zero commands: for every task of the plan retrieve_outputs returns
\* true, the executor is not run and insert_outputs is not called.
C6_SecondBuildRunsNoCommand ==
    second => OnlyHits

\* The case of C6 in which no output file was removed between the two
\* builds (output files may have been overwritten).
C6_SecondBuildWithOutputsInPlace ==
    (second /\ ~output_removed) => OnlyHits

\* ------------------------------------------------------------------------
\* The planner (graph/planner.rs) and the making of tasks (graph/task.rs)
\*
\* A string (a target, a path, a rule name) is the sequence of its pieces
\* between slashes: "out/a" is << "out", "a" >>, "a" is << "a" >>, the empty
\* string is << "" >>, "out/" is << "out", "" >>.
\* ------------------------------------------------------------------------

\* HexPath::try_from: the string is a path unless it is empty, starts or ends
\* with a slash, contains a double slash (in each case a piece is empty), or
\* has a piece "." or "..".
try_from(string) ==
    IF string = << "" >> THEN [ok |-> FALSE, path |-> string]
    ELSE IF string[1] = "" THEN [ok |-> FALSE, path |-> string]
    ELSE IF string[Len(string)] = "" THEN [ok |-> FALSE, path |-> string]
    ELSE IF \E i \in 1 .. Len(string) : string[i] = ""
    THEN [ok |-> FALSE, path |-> string]
    ELSE IF \E i \in 1 .. Len(string) : string[i] \in {".", ".."}
    THEN [ok |-> FALSE, path |-> string]
    ELSE [ok |-> TRUE, path |-> string]

\* HexPath::is_output: the path starts with "out/".
is_output(path) == Len(path) >= 2 /\ path[1] = "out"

\* Planner::new, lines 34-39: the rule of each name. A later rule of the
\* file replaces an earlier one of the same name.
rule_map(rules) ==
    [ n \in { rules[i].name : i \in 1 .. Len(rules) } |->
        rules[CHOOSE i \in 1 .. Len(rules) :
                  /\ rules[i].name = n
                  /\ \A j \in (i + 1) .. Len(rules) : rules[j].name # n] ]

\* Planner::new, lines 34-39: the name of the rule that lists each output.
\* A later rule of the file replaces an earlier one that lists the same path.
rule_by_output(rules) ==
    [ o \in UNION { Range(rules[i].outputs) : i \in 1 .. Len(rules) } |->
        rules[CHOOSE i \in 1 .. Len(rules) :
                  /\ o \in Range(rules[i].outputs)
                  /\ \A j \in (i + 1) .. Len(rules) :
                         o \notin Range(rules[j].outputs)].name ]

\* Task::new
NewTask(rule) ==
    [ rule |-> rule, depends_on |-> << >>, used_by |-> << >>,
      unbuilt_dependencies |-> 0, is_built |-> FALSE ]

\* Task::depends_on_rule
DependsOnRuleNeverMutant(task, rule_name) == FALSE
depends_on_rule(task, rule_name) ==
    \E i \in 1 .. Len(task.depends_on) : task.depends_on[i] = rule_name

\* Task::add_dependency: the two tasks after the call. A task is named in
\* depends_on and used_by by its rule's name.
AddDependencySelfEdgeMutant(from_task, to_task) ==
    [ from |-> [from_task EXCEPT
                    !.depends_on = Append(@, from_task.rule.name),
                    !.unbuilt_dependencies = @ + 1],
      to   |-> [to_task EXCEPT !.used_by = Append(@, from_task.rule.name)] ]
AddDependencyOneWayMutant(from_task, to_task) ==
    IF depends_on_rule(from_task, to_task.rule.name)
    THEN [from |-> from_task, to |-> to_task]
    ELSE [ from |-> [from_task EXCEPT
                         !.depends_on = Append(@, to_task.rule.name),
                         !.unbuilt_dependencies = @ + 1],
           to   |-> to_task ]
add_dependency(from_task, to_task) ==
    IF depends_on_rule(from_task, to_task.rule.name)
    THEN [from |-> from_task, to |-> to_task]
    ELSE [ from |-> [from_task EXCEPT
                         !.depends_on = Append(@, to_task.rule.name),
                         !.unbuilt_dependencies = @ + 1],
           to   |-> [to_task EXCEPT !.used_by = Append(@, from_task.rule.name)] ]

\* plan_one_target, line 82: the rule is already on the recursion stack.
CycleFoundMutant(rule_name, targets_in_progress) == targets_in_progress # {}
CycleFound(rule_name, targets_in_progress) == rule_name \in targets_in_progress

\* What plan_one_target returns: Ok(rule_name) with the planner's tasks, an
\* Err with its diagnostic and the name in it, or a panic.
Planned(kind, name, task_for_rule) ==
    [kind |-> kind, name |-> name, task_for_rule |-> task_for_rule]

\* plan_one_target, and its loop over the inputs of the rule (lines 102-108)
\* from the i-th input on, `task` being the task under construction.
RECURSIVE plan_one_target(_, _, _, _)
RECURSIVE AddSubtasks(_, _, _, _, _, _)
AddSubtasks(rules, task_for_rule, task, inputs, i, targets_in_progress) ==
    IF i > Len(inputs)
    THEN Planned("ok", task.rule.name, (task.rule.name :> task) @@ task_for_rule)
    ELSE IF ~is_output(inputs[i])
    THEN AddSubtasks(rules, task_for_rule, task, inputs, i + 1, targets_in_progress)
    ELSE LET sub == plan_one_target(rules, task_for_rule, inputs[i],
                                    targets_in_progress)
         IN  IF sub.kind # "ok"
             THEN sub
             ELSE LET added == add_dependency(task, sub.task_for_rule[sub.name])
                  IN  AddSubtasks(rules,
                                  [sub.task_for_rule EXCEPT ![sub.name] = added.to],
                                  added.from, inputs, i + 1, targets_in_progress)

plan_one_target(rules, task_for_rule, target_string, targets_in_progress) ==
    IF ~try_from(target_string).ok
    THEN Planned("panic", target_string, task_for_rule)
    ELSE IF is_output(target_string) /\ target_string \notin DOMAIN rule_by_output(rules)
    THEN Planned("No rule exists to build", target_string, task_for_rule)
    ELSE LET rule_name == IF is_output(target_string)
                          THEN rule_by_output(rules)[target_string]
                          ELSE target_string
         IN  IF CycleFound(rule_name, targets_in_progress)
             THEN Planned("Rule cycle involving rule", rule_name, task_for_rule)
             ELSE IF rule_name \in DOMAIN task_for_rule
             THEN Planned("ok", rule_name, task_for_rule)
             ELSE IF rule_name \notin DOMAIN rule_map(rules)
             THEN Planned("No rule exists named", rule_name, task_for_rule)
             ELSE AddSubtasks(rules, task_for_rule,
                              NewTask(rule_map(rules)[rule_name]),
                              rule_map(rules)[rule_name].inputs, 1,
                              targets_in_progress \cup {rule_name})

\* Planner::plan from the i-th target on: a BuildPlan, or the first
\* diagnostic (or panic) of plan_one_target.
RECURSIVE plan(_, _, _, _, _)
plan(rules, target_list, i, target_rules, task_for_rule) ==
    IF i > Len(target_list)
    THEN [ kind |-> "plan", name |-> << >>, target_rules |-> target_rules,
           tasks |-> task_for_rule ]
    ELSE LET one == plan_one_target(rules, task_for_rule, target_list[i], {})
         IN  IF one.kind # "ok"
             THEN [ kind |-> one.kind, name |-> one.name, target_rules |-> {},
                    tasks |-> << >> ]
             ELSE plan(rules, target_list, i + 1, target_rules \cup {one.name},
                       one.task_for_rule)

\* plan_build
PlanBuildEveryRuleMutant(rules, target_list) ==
    plan(rules, target_list \o [k \in 1 .. Len(rules) |-> rules[k].name], 1, {}, << >>)
PlanBuildFirstTargetMutant(rules, target_list) ==
    plan(rules, IF target_list = << >> THEN << >> ELSE << target_list[1] >>,
         1, {}, << >>)
plan_build(rules, target_list) == plan(rules, target_list, 1, {}, << >>)

\* The names the rules and paths of the Hexmake files are made of.
Letters == << "a", "b", "c", "d", "e" >>

RuleNameOf(i) == << Letters[i] >>

OutputOf(i) == << "out", Letters[i] >>

\* A source file, an output path no rule lists, a name no rule has.
SourceInput == << "src", "main.c" >>

UnlistedOutput == << "out", "zz" >>

UnknownName == << "zz" >>

\* Strings HexPath::try_from rejects: "", "out/", "..".
InvalidTargets == { << "" >>, << "out", "" >>, << ".." >> }

\* The Hexmake files: MaxRules rules, the i-th named Letters[i] with the one
\* output out/<name>; its inputs are a source file, then any of the rules'
\* outputs (its own included), and for the first rule possibly an output
\* path that no rule lists.
HexFiles ==
    { [ i \in 1 .. MaxRules |->
          [ name    |-> RuleNameOf(i),
            outputs |-> << OutputOf(i) >>,
            inputs  |-> << SourceInput >> \o
                        [k \in 1 .. Cardinality(uses[i]) |->
                            OutputOf(Ascending(uses[i])[k])] \o
                        (IF i = 1 /\ unlisted THEN << UnlistedOutput >> ELSE << >>) ] ] :
      uses \in [1 .. MaxRules -> SUBSET (1 .. MaxRules)], unlisted \in BOOLEAN }

\* The target strings: rule names, output paths, and strings that are
\* neither, well-formed or not.
TargetStrings ==
    { RuleNameOf(i) : i \in 1 .. MaxRules } \cup
    { OutputOf(i) : i \in 1 .. MaxRules } \cup
    { UnknownName, UnlistedOutput } \cup InvalidTargets

TargetLists == UNION { [1 .. n -> TargetStrings] : n \in 0 .. MaxTargets }

NoPlan == [ kind |-> "none", name |-> << >>, target_rules |-> {}, tasks |-> << >> ]

\* A Hexmake file has been read and the targets given; plan_build has not
\* been called yet.
PlannerInit ==
    /\ ConductorUnused
    /\ CacheUnused
    /\ BuildUnused
    /\ hex_file \in HexFiles
    /\ targets \in TargetLists
    /\ plan_result = NoPlan
    /\ main_run = << >>
    /\ hash_run = << >>
    /\ copy_run = << >>

\* main_internal, line 43: plan_build(&hexmake_file, &args.targets).
PlanBuild ==
    /\ plan_result = NoPlan
    /\ plan_result' = plan_build(hex_file, targets)
    /\ UNCHANGED << hex_file, targets, main_run, hash_run, copy_run >>
    /\ UNCHANGED << condVars, cacheVars, buildVars >>

PlanNext == PlanBuild

\* plan_build called on any Hexmake file and any targets.
PlanSpec == PlannerInit /\ [][PlanNext]_vars

\* ------------------------------------------------------------------------
\* Properties of the planner
\* ------------------------------------------------------------------------

\* The tasks reached from a set of tasks by one or more depends_on edges.
RECURSIVE ReachedByDependsOn(_, _, _)
ReachedByDependsOn(plan_tasks, frontier, seen) ==
    LET next == UNION { Range(plan_tasks[t].depends_on) :
                            t \in frontier \cap DOMAIN plan_tasks }
    IN  IF next \subseteq seen THEN seen
        ELSE ReachedByDependsOn(plan_tasks, next \ seen, seen \cup next)

\* C17: in every BuildPlan plan_build returns, the depends_on relation over
\* the tasks is acyclic: no task reaches itself by following depends_on
\* edges, self-edges included.
C17_PlanIsAcyclic ==
    plan_result.kind = "plan" =>
        \A t \in DOMAIN plan_result.tasks :
            t \notin ReachedByDependsOn(plan_result.tasks, {t}, {})

\* plan_build has returned a plan of a chain with a shared dependency: a
\* task that depends on two tasks, one of which depends on the other.
C17_Witness ==
    /\ plan_result.kind = "plan"
    /\ \E t, u, v \in DOMAIN plan_result.tasks :
           /\ Cardinality({t, u, v}) = 3
           /\ {u, v} \subseteq Range(plan_result.tasks[t].depends_on)
           /\ v \in Range(plan_result.tasks[u].depends_on)

\* C18: in every BuildPlan plan_build returns, for every task:
\* unbuilt_dependencies is the number of entries of depends_on, is_built is
\* false, depends_on and used_by are exact inverses, and every edge ends at a
\* task of the plan.
C18_PlanCountersAndEdges ==
    plan_result.kind = "plan" =>
        LET plan_tasks == plan_result.tasks
        IN  \A a \in DOMAIN plan_tasks :
                /\ plan_tasks[a].unbuilt_dependencies = Len(plan_tasks[a].depends_on)
                /\ ~plan_tasks[a].is_built
                /\ Range(plan_tasks[a].depends_on) \subseteq DOMAIN plan_tasks
                /\ Range(plan_tasks[a].used_by) \subseteq DOMAIN plan_tasks
                /\ \A b \in DOMAIN plan_tasks :
                       b \in Range(plan_tasks[a].depends_on)
                           <=> a \in Range(plan_tasks[b].used_by)

\* plan_build has returned a plan in which a task depends on two tasks and a
\* task is used by two tasks.
C18_Witness ==
    /\ plan_result.kind = "plan"
    /\ \E a \in DOMAIN plan_result.tasks : Len(plan_result.tasks[a].depends_on) = 2
    /\ \E b \in DOMAIN plan_result.tasks : Len(plan_result.tasks[b].used_by) = 2

\* What a reference (a target, or an input that is an output) stands for,
\* read off the rules: the rule listing the output, or the rule so named.
Resolves(rules, string) ==
    /\ try_from(string).ok
    /\ IF is_output(string)
       THEN \E i \in 1 .. Len(rules) : string \in Range(rules[i].outputs)
       ELSE \E i \in 1 .. Len(rules) : rules[i].name = string

Resolve(rules, string) ==
    IF is_output(string) THEN rule_by_output(rules)[string] ELSE string

\* The references a rule makes: its inputs that are outputs.
References(rules, rule_name) ==
    { input \in Range(rule_map(rules)[rule_name].inputs) : is_output(input) }

\* The rules reached from a set of references, through the references of the
\* rules they resolve to.
RECURSIVE RulesReached(_, _, _)
RulesReached(rules, references, seen) ==
    LET next == { Resolve(rules, x) : x \in { y \in references : Resolves(rules, y) } }
    IN  IF next \subseteq seen THEN seen
        ELSE RulesReached(rules,
                          UNION { References(rules, n) : n \in next \ seen },
                          seen \cup next)

\* The rules the planner has to look at for the targets.
RulesOfTargets == RulesReached(hex_file, Range(targets), {})

\* Every target and every reference of a rule reached from the targets
\* resolves to a rule.
EveryReferenceResolves ==
    /\ \A i \in 1 .. Len(targets) : Resolves(hex_file, targets[i])
    /\ \A n \in RulesOfTargets :
           \A x \in References(hex_file, n) : Resolves(hex_file, x)

\* A rule is on a dependency cycle: it is reached from its own references.
OnCycle(rule_name) ==
    rule_name \in RulesReached(hex_file, References(hex_file, rule_name), {})

C19_SharedDependencyIsPlanned ==
    (plan_result.kind # "none" /\ EveryReferenceResolves
        /\ ~\E n \in RulesOfTargets : OnCycle(n)) => plan_result.kind = "plan"

\* A first target that has no producer, and the diagnostic the policy gives
\* it: `No rule exists to build` for a string beginning with out/ that no
\* rule lists as an output, `No rule exists named` for any other string that
\* is not a rule name.
FirstTargetDiagnostic ==
    IF is_output(targets[1])
    THEN IF \E i \in 1 .. Len(hex_file) : targets[1] \in Range(hex_file[i].outputs)
         THEN "none" ELSE "No rule exists to build"
    ELSE IF \E i \in 1 .. Len(hex_file) : hex_file[i].name = targets[1]
         THEN "none" ELSE "No rule exists named"

\* C20: plan_build returns a diagnostic and no plan whenever a target or a
\* reference of a reached rule has no producer; a target beginning with out/
\* that no rule lists as an output yields `No rule exists to build`, any
\* other target that is not a rule name yields `No rule exists named`.
C20_NoProducerIsDiagnosed ==
    plan_result.kind # "none" =>
        /\ ~EveryReferenceResolves =>
               plan_result.kind \in {"No rule exists to build", "No rule exists named",
                                     "Rule cycle involving rule"}
        /\ (targets # << >> /\ FirstTargetDiagnostic # "none") =>
               (plan_result.kind = FirstTargetDiagnostic /\ plan_result.name = targets[1])

\* C20 for the targets that HexPath::try_from accepts.
C20_NoProducerIsDiagnosedForPaths ==
    (plan_result.kind # "none" /\ \A i \in 1 .. Len(targets) : try_from(targets[i]).ok) =>
        /\ ~EveryReferenceResolves =>
               plan_result.kind \in {"No rule exists to build", "No rule exists named",
                                     "Rule cycle involving rule"}
        /\ (targets # << >> /\ FirstTargetDiagnostic # "none") =>
               (plan_result.kind = FirstTargetDiagnostic /\ plan_result.name = targets[1])
        /\ plan_result.kind = "No rule exists to build" =>
               (is_output(plan_result.name) /\ ~Resolves(hex_file, plan_result.name))
        /\ plan_result.kind = "No rule exists named" =>
               (~is_output(plan_result.name) /\ ~Resolves(hex_file, plan_result.name))

\* ------------------------------------------------------------------------
\* One run of the program: main_internal (main.rs), from the Hexmake file
\* just loaded to the seeding of the work list in conduct_build. The run of
\* the workers from there on is the conductor's specification above.
\* ------------------------------------------------------------------------

\* The number of rules of the Hexmake files given to main_internal.
MaxMainRules == 2

\* check_file, line 7: output.starts_with("out/").
StartsWithOutMutant(output) == TRUE
StartsWithOut(output) == Len(output) >= 2 /\ output[1] = "out"

\* check_file: Ok, or the first output in file order that is not in out/.
check_file(rules) ==
    LET offenders == UNION { { << i, j >> : j \in { k \in 1 .. Len(rules[i].outputs) :
                                                     ~StartsWithOut(rules[i].outputs[k]) } } :
                             i \in 1 .. Len(rules) }
    IN  IF offenders = {}
        THEN [ok |-> TRUE, output |-> << >>]
        ELSE LET first == CHOOSE ij \in offenders :
                              \A kl \in offenders :
                                  \/ ij[1] < kl[1]
                                  \/ (ij[1] = kl[1] /\ ij[2] <= kl[2])
             IN  [ok |-> FALSE, output |-> rules[first[1]].outputs[first[2]]]

\* An output path outside out/, one per rule.
NotInOut(i) == << "target", Letters[i] >>

\* The Hexmake files given to main_internal: MaxMainRules rules, the i-th
\* named Letters[i]. Its outputs are its own path in out/, the path of the
\* first rule (which the first rule may list as well), a path outside out/,
\* or two paths of which one is outside out/. Its inputs are a source file
\* and possibly the output path out/<name> of one rule.
MainOutputs(i) ==
    { << OutputOf(i) >>, << OutputOf(1) >>, << NotInOut(i) >>,
      << OutputOf(i), NotInOut(i) >>, << NotInOut(i), OutputOf(i) >> }

MainFiles ==
    { [ i \in 1 .. MaxMainRules |->
          [ name    |-> RuleNameOf(i),
            outputs |-> outs[i],
            inputs  |-> << SourceInput >> \o
                        (IF dep[i] = 0 THEN << >> ELSE << OutputOf(dep[i]) >>) ] ] :
      outs \in { f \in [1 .. MaxMainRules ->
                           UNION { MainOutputs(i) : i \in 1 .. MaxMainRules }] :
                     \A i \in 1 .. MaxMainRules : f[i] \in MainOutputs(i) },
      dep \in [1 .. MaxMainRules -> 0 .. MaxMainRules] }

\* The target lists given to main_internal: none, or one target.
MainTargetLists ==
    { << >> } \cup { << t >> : t \in TargetStrings \cup {NotInOut(1)} }

NoError == [kind |-> "none", name |-> << >>]

\* The Hexmake file is loaded (main.rs line 36) and nothing else is done.
MainInit ==
    /\ ConductorUnused
    /\ CacheUnused
    /\ BuildUnused
    /\ hex_file \in MainFiles
    /\ targets \in MainTargetLists
    /\ plan_result = NoPlan
    /\ main_run = [ pc |-> "loaded", result |-> "none", error |-> NoError,
                    cache_dirs |-> FALSE, out_dir |-> FALSE, scheduled |-> {} ]
    /\ hash_run = << >>
    /\ copy_run = << >>

\* main_internal, line 37: check_file(&hexmake_file)?
CheckFile ==
    /\ main_run.pc = "loaded"
    /\ LET checked == check_file(hex_file)
       IN  \/ /\ checked.ok
              /\ main_run' = [main_run EXCEPT !.pc = "checked"]
           \/ /\ ~checked.ok
              /\ main_run' = [main_run EXCEPT
                                 !.pc = "returned",
                                 !.result = "Err",
                                 !.error = [kind |-> "Output is not in out/",
                                            name |-> checked.output]]
    /\ UNCHANGED << hex_file, targets, plan_result, hash_run, copy_run >>
    /\ UNCHANGED << condVars, cacheVars, buildVars >>

\* main_internal, line 43: plan_build(&hexmake_file, &args.targets)?
MainPlanBuild ==
    /\ main_run.pc = "checked"
    /\ LET planned == plan_build(hex_file, targets)
       IN  /\ plan_result' = planned
           /\ \/ /\ planned.kind = "plan"
                 /\ main_run' = [main_run EXCEPT !.pc = "planned"]
              \/ /\ planned.kind = "panic"
                 /\ main_run' = [main_run EXCEPT !.pc = "returned",
                                                 !.result = "panic"]
              \/ /\ planned.kind \notin {"plan", "panic"}
                 /\ main_run' = [main_run EXCEPT
                                    !.pc = "returned",
                                    !.result = "Err",
                                    !.error = [kind |-> planned.kind,
                                               name |-> planned.name]]
    /\ UNCHANGED << hex_file, targets, hash_run, copy_run >>
    /\ UNCHANGED << condVars, cacheVars, buildVars >>

\* main_internal, lines 44-47: BuildCache::new creates the two directories
\* of the cache.
NewBuildCache ==
    /\ main_run.pc = "planned"
    /\ main_run' = [main_run EXCEPT !.pc = "cache", !.cache_dirs = TRUE]
    /\ UNCHANGED << hex_file, targets, plan_result, hash_run, copy_run >>
    /\ UNCHANGED << condVars, cacheVars, buildVars >>

\* conduct_build, lines 14-27: the directory out is created and every task
\* of the plan that is ready to run is pushed onto the pending tasks.
ScheduleReadyTasks ==
    /\ main_run.pc = "cache"
    /\ main_run' = [main_run EXCEPT
                       !.pc = "conducting",
                       !.out_dir = TRUE,
                       !.scheduled = { n \in DOMAIN plan_result.tasks :
                           plan_result.tasks[n].unbuilt_dependencies = 0 }]
    /\ UNCHANGED << hex_file, targets, plan_result, hash_run, copy_run >>
    /\ UNCHANGED << condVars, cacheVars, buildVars >>

MainNext ==
    \/ CheckFile
    \/ MainPlanBuild
    \/ NewBuildCache
    \/ ScheduleReadyTasks

MainSpec == MainInit /\ [][MainNext]_vars

\* The run has touched nothing: no plan, no cache directory, no out
\* directory, no task scheduled.
NoSideEffect ==
    /\ plan_result = NoPlan
    /\ ~main_run.cache_dirs
    /\ ~main_run.out_dir
    /\ main_run.scheduled = {}

\* Two different rules of the file list the same output path.
DuplicateOutput(rules) ==
    \E i, j \in 1 .. Len(rules) :
        i # j /\ Range(rules[i].outputs) \cap Range(rules[j].outputs) # {}

\* C21: a rules file in which two different rules declare the same output
\* path is rejected with an error before any task is scheduled and with no
\* side effects; it is never planned with one of the two rules chosen.
C21_DuplicateOutputIsRejected ==
    (DuplicateOutput(hex_file) /\ main_run.pc # "loaded") =>
        /\ main_run.pc = "returned"
        /\ main_run.result = "Err"
        /\ NoSideEffect

\* What the code does with such a file whose outputs are all in out/: the
\* file passes check_file, and a plan for the shared output path builds the
\* last of the rules that list it.
C21_LastRuleIsPlanned ==
    (/\ DuplicateOutput(hex_file)
     /\ check_file(hex_file).ok
     /\ main_run.pc # "loaded") =>
        ((plan_result.kind = "plan" /\ targets = << OutputOf(1) >>) =>
               \E i \in 1 .. Len(hex_file) :
                   /\ plan_result.target_rules = {hex_file[i].name}
                   /\ OutputOf(1) \in Range(hex_file[i].outputs)
                   /\ \A j \in (i + 1) .. Len(hex_file) :
                          OutputOf(1) \notin Range(hex_file[j].outputs))

\* Some output of some rule does not begin with out/.
OutputOutsideOut(rules) ==
    \E i \in 1 .. Len(rules) : \E j \in 1 .. Len(rules[i].outputs) :
        ~is_output(rules[i].outputs[j])

\* C22: when any rule's output does not begin with out/, the run fails with
\* "Output `<path>` is not in `out/`" naming such an output (the first one of
\* the file), before planning, before the cache directories are created and
\* before any task is scheduled, whichever targets are requested.
C22_OutputOutsideOutIsRejected ==
    (OutputOutsideOut(hex_file) /\ main_run.pc # "loaded") =>
        /\ main_run.pc = "returned"
        /\ main_run.result = "Err"
        /\ main_run.error.kind = "Output is not in out/"
        /\ \E i \in 1 .. Len(hex_file) : \E j \in 1 .. Len(hex_file[i].outputs) :
               /\ main_run.error.name = hex_file[i].outputs[j]
               /\ ~is_output(hex_file[i].outputs[j])
               /\ \A k \in 1 .. (i - 1) : \A l \in 1 .. Len(hex_file[k].outputs) :
                      is_output(hex_file[k].outputs[l])
               /\ \A l \in 1 .. (j - 1) : is_output(hex_file[i].outputs[l])
        /\ NoSideEffect

\* Two rules list out/a, the target is out/a, and the run has planned the
\* second rule and scheduled it.
C21_Reached ==
    /\ hex_file[1].outputs = << OutputOf(1) >>
    /\ hex_file[2].outputs = << OutputOf(1) >>
    /\ targets = << OutputOf(1) >>
    /\ main_run.pc = "conducting"
    /\ main_run.scheduled = {RuleNameOf(2)}

\* A file whose second rule has its second output outside out/, the target
\* being a rule that could be planned, is rejected.
C22_Witness ==
    /\ main_run.pc = "returned"
    /\ main_run.error = [kind |-> "Output is not in out/", name |-> NotInOut(2)]
    /\ hex_file[1].outputs = << OutputOf(1) >>
    /\ hex_file[2].outputs = << OutputOf(2), NotInOut(2) >>
    /\ targets = << RuleNameOf(1) >>

\* ------------------------------------------------------------------------
\* BuildHash::hash alone (cache/build_hash.rs), byte by byte. A string is
\* the sequence of its bytes, and the stream is the sequence of bytes given
\* to the digest; the digest is taken to be free of collisions, so that two
\* hashes are equal exactly when the two streams are.
\* ------------------------------------------------------------------------

\* The number of changes made to the rule, the environment and the file
\* system between the two computations of the hash.
MaxHashChanges == 2

\* The paths of the workspace: the file "m.c", the directory "src" with the
\* files "src/a" and "src/b", the file "out/t", and the directory "out/d"
\* with the file "out/d/t".
MainC == << 109, 46, 99 >>
SrcDir == << 115, 114, 99 >>
SrcA == << 115, 114, 99, 47, 97 >>
SrcB == << 115, 114, 99, 47, 98 >>
OutT == << 111, 117, 116, 47, 116 >>
OutD == << 111, 117, 116, 47, 100 >>
OutDT == << 111, 117, 116, 47, 100, 47, 116 >>

HashFiles == { MainC, SrcA, SrcB, OutT, OutDT }

HashDirs == { SrcDir, OutD }

\* The files of a directory, in the order of their paths.
Children(dir) ==
    IF dir = SrcDir THEN << SrcA, SrcB >>
    ELSE IF dir = OutD THEN << OutDT >>
    ELSE << >>

\* The contents a file may have: "x" or "y".
FileBytes == { << 120 >>, << 121 >> }

NoFile == [present |-> FALSE, bytes |-> << >>]

\* The path is below the directory: it starts with the directory's path and
\* a slash.
IsUnder(path, dir) ==
    /\ Len(path) > Len(dir) + 1
    /\ SubSeq(path, 1, Len(dir)) = dir
    /\ path[Len(dir) + 1] = 47

\* A file system `v` is the record of its kind ("posix" or "fake"), its
\* files, the order in which the operating system lists the entries of the
\* directory src, and whether an ignore file at or above src names src/b.

\* VirtualFileSystem::is_file
vfs_is_file(v, path) == path \in HashFiles /\ v.files[path].present

\* VirtualFileSystem::exists: fs::exists on posix, is_file on the fake.
vfs_exists(v, path) ==
    IF v.kind = "posix"
    THEN vfs_is_file(v, path) \/ path \in HashDirs
    ELSE vfs_is_file(v, path)

\* VirtualFileSystem::read
vfs_read(v, path) == v.files[path].bytes

\* The entries of `listing` that the walk yields: the files that exist and
\* that no ignore file names.
RECURSIVE Walked(_, _, _)
Walked(v, listing, i) ==
    IF i > Len(listing) THEN << >>
    ELSE (IF /\ vfs_is_file(v, listing[i])
             /\ ~(v.kind = "posix" /\ v.ignored /\ listing[i] = SrcB)
          THEN << listing[i] >> ELSE << >>) \o Walked(v, listing, i + 1)

\* VirtualFileSystem::tree_walk. On posix, ignore::Walk: the path itself,
\* then, for a directory, its entries in the order the operating system
\* lists them, less the ignored ones. On the fake, the path itself for a
\* file, and otherwise the files below it in the order of their paths.
vfs_tree_walk(v, path) ==
    IF vfs_is_file(v, path) THEN << path >>
    ELSE IF v.kind = "posix"
    THEN << path >> \o Walked(v, IF path = SrcDir THEN v.order ELSE Children(path), 1)
    ELSE Walked(v, Children(path), 1)

\* u64::to_le_bytes: the first n bytes of the value, lowest first.
RECURSIVE to_le_bytes(_, _)
to_le_bytes(value, n) ==
    IF n = 0 THEN << >>
    ELSE << value % 256 >> \o to_le_bytes(value \div 256, n - 1)

\* hash_u64
hash_u64(value) == to_le_bytes(value, 8)

\* hash_usize
hash_usize(value) == hash_u64(value)

\* hash_bytes: the number of bytes, then the bytes.
HashBytesMutant(value) == value
hash_bytes(value) == hash_usize(Len(value)) \o value

\* hash_string
hash_string(value) == hash_bytes(value)

\* The loops of hash_rule from the i-th string on.
RECURSIVE hash_strings(_, _)
hash_strings(strings, i) ==
    IF i > Len(strings) THEN << >>
    ELSE hash_string(strings[i]) \o hash_strings(strings, i + 1)

\* hash_rule: the outputs, the inputs and the commands, each list after its
\* length. The rule's name is not hashed.
hash_rule(rule) ==
    hash_usize(Len(rule.outputs)) \o hash_strings(rule.outputs, 1) \o
    hash_usize(Len(rule.inputs)) \o hash_strings(rule.inputs, 1) \o
    hash_usize(Len(rule.commands)) \o hash_strings(rule.commands, 1)

\* hash_env: the number of variables, then each name and value, in the
\* BTreeMap's order (an environment is the sequence of its << name, value >>
\* pairs in the order of the names).
RECURSIVE hash_env_from(_, _)
hash_env_from(environment, i) ==
    IF i > Len(environment) THEN << >>
    ELSE hash_string(environment[i][1]) \o hash_string(environment[i][2]) \o
         hash_env_from(environment, i + 1)

hash_env(environment) ==
    hash_usize(Len(environment)) \o hash_env_from(environment, 1)

\* hash_tree (build_hash.rs lines 149-160), from the i-th entry of the walk
\* on: the entry's path, then 0 and the contents for a file, 1 for a
\* directory.
RECURSIVE hash_entries(_, _, _)
hash_entries(v, entries, i) ==
    IF i > Len(entries) THEN << >>
    ELSE hash_string(entries[i]) \o
         (IF vfs_is_file(v, entries[i])
          THEN hash_usize(0) \o hash_bytes(vfs_read(v, entries[i]))
          ELSE hash_usize(1)) \o
         hash_entries(v, entries, i + 1)

\* hash_tree (build_hash.rs lines 140-163): an error if the path does not
\* exist.
hash_tree_bytes(v, path) ==
    IF ~vfs_exists(v, path)
    THEN [ok |-> FALSE, stream |-> << >>]
    ELSE [ok |-> TRUE, stream |-> hash_entries(v, vfs_tree_walk(v, path), 1)]

\* The loop of hash_trees from the i-th path on.
RECURSIVE hash_trees_from(_, _, _)
hash_trees_from(v, paths, i) ==
    IF i > Len(paths) THEN [ok |-> TRUE, stream |-> << >>]
    ELSE LET tree == hash_tree_bytes(v, paths[i])
             rest == hash_trees_from(v, paths, i + 1)
         IN  IF tree.ok /\ rest.ok
             THEN [ok |-> TRUE, stream |-> tree.stream \o rest.stream]
             ELSE [ok |-> FALSE, stream |-> << >>]

\* hash_trees
hash_trees(v, paths) ==
    LET trees == hash_trees_from(v, paths, 1)
    IN  IF trees.ok
        THEN [ok |-> TRUE, stream |-> hash_usize(Len(paths)) \o trees.stream]
        ELSE trees

\* BuildHash::hash, line 48: the trees hashed are those of the rule's inputs.
HashedTreesMutant(rule) == rule.inputs \o rule.outputs
HashedTrees(rule) == rule.inputs

\* BuildHash::hash: the stream given to the digest, or an error.
BuildHash_hash(environment, rule, v) ==
    LET trees == hash_trees(v, HashedTrees(rule))
    IN  IF trees.ok
        THEN [ok |-> TRUE,
              stream |-> hash_rule(rule) \o hash_env(environment) \o trees.stream]
        ELSE trees

\* The rules: one or both of the outputs out/t and out/d/t; as inputs the
\* file m.c, the directory src, both, or the directory out/d; the commands
\* "cc", or "c" and "cc" in either order.
HashOutputs == { << OutT >>, << OutDT >>, << OutT, OutDT >> }

HashInputs == { << MainC >>, << SrcDir >>, << MainC, SrcDir >>, << OutD >> }

HashCommands == { << << 99, 99 >> >>, << << 99 >>, << 99, 99 >> >>,
                  << << 99, 99 >>, << 99 >> >> }

HashRules ==
    { [name |-> << 116 >>, outputs |-> o, inputs |-> i, commands |-> c] :
      o \in HashOutputs, i \in HashInputs, c \in HashCommands }

\* The environments: none, E=1, E=11, E1=1.
HashEnvs ==
    { << >>, << << << 69 >>, << 49 >> >> >>, << << << 69 >>, << 49, 49 >> >> >>,
      << << << 69, 49 >>, << 49 >> >> >> }

\* No hash computed yet.
NoHash ==
    [ done |-> FALSE, rule |-> << >>, env |-> << >>, files |-> << >>,
      order |-> << >>, ignored |-> FALSE, result |-> << >> ]

\* The file system of the run.
HashFs ==
    [ kind |-> hash_run.kind, files |-> hash_run.files,
      order |-> hash_run.order, ignored |-> hash_run.ignored ]

\* BuildHash::hash on the current rule, environment and file system, with
\* what it was given.
HashNow ==
    [ done |-> TRUE, rule |-> hash_run.rule, env |-> hash_run.env,
      files |-> hash_run.files, order |-> hash_run.order,
      ignored |-> hash_run.ignored,
      result |-> BuildHash_hash(hash_run.env, hash_run.rule, HashFs) ]

\* A rule with the output out/t and the command "cc", the environment E=1,
\* every file present with the contents "x".
HashInit ==
    /\ ConductorUnused
    /\ CacheUnused
    /\ BuildUnused
    /\ hex_file = << >>
    /\ targets = << >>
    /\ plan_result = << >>
    /\ main_run = << >>
    /\ copy_run = << >>
    /\ \E k \in {"posix", "fake"} : \E r \in HashRules :
           /\ r.outputs = << OutT >>
           /\ r.commands = << << 99, 99 >> >>
           /\ hash_run = [ kind |-> k, rule |-> r,
                           env |-> << << << 69 >>, << 49 >> >> >>,
                           files |-> [p \in HashFiles |->
                                         [present |-> TRUE, bytes |-> << 120 >>]],
                           order |-> Children(SrcDir), ignored |-> FALSE,
                           changes |-> 0, first |-> NoHash, second |-> NoHash ]

HashUnchanged ==
    /\ UNCHANGED << hex_file, targets, plan_result, main_run, copy_run >>
    /\ UNCHANGED << condVars, cacheVars, buildVars >>

\* BuildHash::hash is called.
HashFirst ==
    /\ ~hash_run.first.done
    /\ hash_run' = [hash_run EXCEPT !.first = HashNow]
    /\ HashUnchanged

\* BuildHash::hash is called again.
HashSecond ==
    /\ hash_run.first.done
    /\ ~hash_run.second.done
    /\ hash_run' = [hash_run EXCEPT !.second = HashNow]
    /\ HashUnchanged

MayChange == ~hash_run.second.done /\ hash_run.changes < MaxHashChanges

\* The rule is replaced by another one.
EditRule(r) ==
    /\ MayChange
    /\ r # hash_run.rule
    /\ hash_run' = [hash_run EXCEPT !.rule = r, !.changes = @ + 1]
    /\ HashUnchanged

\* The environment is replaced by another one.
SetEnv(e) ==
    /\ MayChange
    /\ e # hash_run.env
    /\ hash_run' = [hash_run EXCEPT !.env = e, !.changes = @ + 1]
    /\ HashUnchanged

\* A file is written. On posix a file new in src takes any place in the
\* listing of src.
HashWrite(path, bytes) ==
    /\ MayChange
    /\ hash_run.files[path] # [present |-> TRUE, bytes |-> bytes]
    /\ \E o \in Orderings(Range(Children(SrcDir))) :
           /\ \/ o = hash_run.order
              \/ /\ hash_run.kind = "posix"
                 /\ IsUnder(path, SrcDir)
                 /\ ~hash_run.files[path].present
           /\ hash_run' = [hash_run EXCEPT
                              !.files[path] = [present |-> TRUE, bytes |-> bytes],
                              !.order = o,
                              !.changes = @ + 1]
    /\ HashUnchanged

\* A file is removed.
HashRemove(path) ==
    /\ MayChange
    /\ hash_run.files[path].present
    /\ hash_run' = [hash_run EXCEPT !.files[path] = NoFile, !.changes = @ + 1]
    /\ HashUnchanged

\* On posix, an ignore file at or above src that names src/b is written or
\* removed.
SetIgnored ==
    /\ MayChange
    /\ hash_run.kind = "posix"
    /\ hash_run' = [hash_run EXCEPT !.ignored = ~@, !.changes = @ + 1]
    /\ HashUnchanged

HashNext ==
    \/ HashFirst
    \/ HashSecond
    \/ \E r \in HashRules : EditRule(r)
    \/ \E e \in HashEnvs : SetEnv(e)
    \/ \E path \in HashFiles : \E bytes \in FileBytes : HashWrite(path, bytes)
    \/ \E path \in HashFiles : HashRemove(path)
    \/ SetIgnored

HashSpec == HashInit /\ [][HashNext]_vars

\* The files at or below the inputs of the rule.
InputTreeFiles(rule) ==
    { p \in HashFiles : \E i \in 1 .. Len(rule.inputs) :
          p = rule.inputs[i] \/ IsUnder(p, rule.inputs[i]) }

\* The hash has been computed twice.
HashedTwice == hash_run.first.done /\ hash_run.second.done

\* The two computations had the same rule, the same environment and the
\* same contents of the input trees.
SameHashInputs ==
    /\ hash_run.first.rule = hash_run.second.rule
    /\ hash_run.first.env = hash_run.second.env
    /\ \A p \in InputTreeFiles(hash_run.first.rule) :
           hash_run.first.files[p] = hash_run.second.files[p]

\* C23: two computations of the rule hash with the same rule, the same
\* environment projection and the same byte contents of the input trees
\* return equal fingerprints, whatever else the file system holds and
\* whatever ran in between.
C23_RuleHashIsDeterministic ==
    (HashedTwice /\ SameHashInputs) =>
        hash_run.first.result = hash_run.second.result

\* C23 holds where the walk's order is that of the paths (the fake file
\* system), where every input is a file, and where the listing order and
\* the ignore files are the same at both computations.
C23_DeterministicOnTheFake ==
    (HashedTwice /\ SameHashInputs /\ hash_run.kind = "fake") =>
        hash_run.first.result = hash_run.second.result

C23_DeterministicForFileInputs ==
    (HashedTwice /\ SameHashInputs
     /\ Range(hash_run.first.rule.inputs) \cap HashDirs = {}) =>
        hash_run.first.result = hash_run.second.result

C23_DeterministicForTheSameWalk ==
    (HashedTwice /\ SameHashInputs
     /\ hash_run.first.order = hash_run.second.order
     /\ hash_run.first.ignored = hash_run.second.ignored) =>
        hash_run.first.result = hash_run.second.result

\* src/a is removed and written again with the same contents between two
\* computations for a rule whose input is src; no ignore file is involved,
\* and the two hashes differ.
C23_Reached ==
    /\ HashedTwice /\ SameHashInputs
    /\ hash_run.first.files = hash_run.second.files
    /\ ~hash_run.first.ignored /\ ~hash_run.second.ignored
    /\ hash_run.first.result.ok /\ hash_run.second.result.ok
    /\ hash_run.first.result # hash_run.second.result

\* The two computations differ in nothing but the files at the rule's
\* output paths.
DifferOnlyAtOutputs ==
    /\ hash_run.first.rule = hash_run.second.rule
    /\ hash_run.first.env = hash_run.second.env
    /\ hash_run.first.order = hash_run.second.order
    /\ hash_run.first.ignored = hash_run.second.ignored
    /\ \A p \in HashFiles \ Range(hash_run.first.rule.outputs) :
           hash_run.first.files[p] = hash_run.second.files[p]

RECURSIVE TreeOccurrences(_, _, _)
TreeOccurrences(v, entries, i) ==
    IF i > Len(entries) THEN << >>
    ELSE << [ path |-> entries[i], file |-> vfs_is_file(v, entries[i]),
              bytes |-> IF vfs_is_file(v, entries[i])
                        THEN vfs_read(v, entries[i]) ELSE << >> ] >> \o
         TreeOccurrences(v, entries, i + 1)

RECURSIVE InputOccurrences(_, _, _)
InputOccurrences(v, inputs, i) ==
    IF i > Len(inputs) THEN << >>
    ELSE TreeOccurrences(v, vfs_tree_walk(v, inputs[i]), 1) \o
         InputOccurrences(v, inputs, i + 1)

EntriesOf(h) ==
    InputOccurrences([kind |-> hash_run.kind, files |-> h.files, order |-> h.order,
                  ignored |-> h.ignored], h.rule.inputs, 1)

\* The files of the input trees that the walk yields.
WalkedFiles(h) ==
    { p \in InputTreeFiles(h.rule) :
          /\ h.files[p].present
          /\ ~(hash_run.kind = "posix" /\ h.ignored /\ p = SrcB
               /\ SrcB \notin Range(h.rule.inputs)) }

\* C25: the stream given to the digest is an injective encoding of the
\* outputs, the inputs, the commands, the environment projection and the
\* entries of the input trees: two computations with equal streams had all
\* of these equal. In particular a change to an output path or to the list
\* of outputs, to a command, to the value of a captured variable, or to a
\* byte of a file of an input tree that the walk yields changes the stream.
C25_StreamIsInjective ==
    (/\ HashedTwice
     /\ hash_run.first.result.ok
     /\ hash_run.second.result.ok) =>
        /\ hash_run.first.result.stream = hash_run.second.result.stream =>
               /\ hash_run.first.rule.outputs = hash_run.second.rule.outputs
               /\ hash_run.first.rule.inputs = hash_run.second.rule.inputs
               /\ hash_run.first.rule.commands = hash_run.second.rule.commands
               /\ hash_run.first.env = hash_run.second.env
               /\ EntriesOf(hash_run.first) = EntriesOf(hash_run.second)
        /\ (\E p \in WalkedFiles(hash_run.first) \cup WalkedFiles(hash_run.second) :
                hash_run.first.files[p] # hash_run.second.files[p]) =>
               hash_run.first.result.stream # hash_run.second.result.stream

\* The two computations differ in one byte of src/a alone, for a rule whose
\* inputs are m.c and src, and the streams differ.
C25_Witness ==
    /\ HashedTwice
    /\ hash_run.first.rule = hash_run.second.rule
    /\ hash_run.first.rule.inputs = << MainC, SrcDir >>
    /\ hash_run.first.env = hash_run.second.env
    /\ hash_run.first.order = hash_run.second.order
    /\ hash_run.first.files[SrcA].bytes = << 120 >>
    /\ hash_run.second.files[SrcA].bytes = << 121 >>
    /\ \A p \in HashFiles \ {SrcA} :
           hash_run.first.files[p] = hash_run.second.files[p]
    /\ hash_run.first.result.ok /\ hash_run.second.result.ok
    /\ hash_run.first.result.stream # hash_run.second.result.stream

\* ------------------------------------------------------------------------
\* Further properties of the conductor and of build_rule
\* ------------------------------------------------------------------------

\* C26: when a command of a rule exits with a non-zero status, the executor
\* returns a command-failed error to the worker rather than terminating the
\* process: no build step ends the process with the status of a failed
\* command.
C26_CommandFailureIsReturned ==
    [][\A w \in Workers : wpc[w] = "build" => exit_code' # 1]_vars

\* What build_rule does instead: a failing command ends the process with
\* status 1, at once and from inside the worker; the task is not built, no
\* worker is told anything and conduct_build does not return.
C26_CommandFailureExits ==
    [][(exit_code = 0 /\ exit_code' = 1) =>
          /\ \E w \in Workers : wpc[w] = "build" /\ ~is_built[wtask[w]]
          /\ is_built' = is_built
          /\ wresult' = wresult
          /\ mainpc' = mainpc
          /\ main_result' = main_result]_vars

\* A command has failed and the process is gone.
C26_Reached == exit_code = 1 /\ mainpc # "returned"

\* ------------------------------------------------------------------------
\* Two workers in the cache at once: one in insert_outputs, one in
\* retrieve_outputs, for two rules that list the same output path and whose
\* output has the same contents, hence the same name outputs/<c> in the cache
\* (hash_tree of an output covers its path and its bytes). The file system is
\* PosixFileSystem, whose copy is fs::copy: it opens the source, creates or
\* truncates the destination, and copies block after block until it reads
\* the end of the source. A file is the sequence of its blocks.
\* ------------------------------------------------------------------------

\* The number of blocks of the output.
CopyBlocks == 3

\* The bytes of the output, and of outputs/<c> once written.
Complete == [i \in 1 .. CopyBlocks |-> i]

\* The file at the workspace path of the output: the one the build made
\* ("built", with the complete bytes), none, or the one the retrieving
\* worker is creating ("retrieved", with the blocks copied so far).
OutputBlocks ==
    IF copy_run.out = "built" THEN Complete
    ELSE IF copy_run.out = "retrieved" THEN copy_run.retrieved
    ELSE << >>

\* A rule a was built earlier (its inputmap, or not, and outputs/<c> are in
\* the cache); now the tasks of a and b run together, b was a miss and its
\* build_rule has just copied the output back; a is about to be retrieved.
CopyInit ==
    /\ ConductorUnused
    /\ CacheUnused
    /\ BuildUnused
    /\ hex_file = << >>
    /\ targets = << >>
    /\ plan_result = << >>
    /\ main_run = << >>
    /\ hash_run = << >>
    /\ \E hit \in BOOLEAN :
           copy_run = [ inputmap |-> hit, blob |-> Complete, out |-> "built",
                        retrieved |-> << >>,
                        ins |-> [pc |-> "hash_tree", src |-> "none", off |-> 0],
                        ret |-> [pc |-> "exists", off |-> 0] ]

CopyUnchanged ==
    /\ UNCHANGED << hex_file, targets, plan_result, main_run, hash_run >>
    /\ UNCHANGED << condVars, cacheVars, buildVars >>

\* insert_outputs, line 68: BuildHash::hash_tree(&output_path). An error if
\* the output is not there; the name of another file of the cache if the
\* output does not hold the complete bytes.
InsertHashTree ==
    /\ copy_run.ins.pc = "hash_tree"
    /\ copy_run' = [copy_run EXCEPT !.ins.pc =
           IF copy_run.out = "none" THEN "err"
           ELSE IF OutputBlocks = Complete THEN "open_src"
           ELSE "other_blob"]
    /\ CopyUnchanged

\* insert_outputs, line 70, fs::copy: the source is opened.
InsertOpenSource ==
    /\ copy_run.ins.pc = "open_src"
    /\ copy_run' = [copy_run EXCEPT
                       !.ins.pc = IF copy_run.out = "none" THEN "err" ELSE "open_dst",
                       !.ins.src = copy_run.out]
    /\ CopyUnchanged

\* fs::copy: outputs/<c> is created or truncated.
InsertOpenDestination ==
    /\ copy_run.ins.pc = "open_dst"
    /\ copy_run' = [copy_run EXCEPT !.ins.pc = "copy", !.blob = << >>]
    /\ CopyUnchanged

\* fs::copy: the next block of the source is appended to outputs/<c>, or the
\* end of the source is read and the copy is over.
InsertCopyBlock ==
    /\ copy_run.ins.pc = "copy"
    /\ LET source == IF copy_run.ins.src = "built" THEN Complete
                     ELSE copy_run.retrieved
       IN  IF copy_run.ins.off < Len(source)
           THEN copy_run' = [copy_run EXCEPT
                                !.blob = Append(@, source[copy_run.ins.off + 1]),
                                !.ins.off = @ + 1]
           ELSE copy_run' = [copy_run EXCEPT !.ins.pc = "write_inputmap"]
    /\ CopyUnchanged

\* insert_outputs, lines 76-78: the inputmap of b is written.
InsertWriteInputmap ==
    /\ copy_run.ins.pc = "write_inputmap"
    /\ copy_run' = [copy_run EXCEPT !.ins.pc = "done"]
    /\ CopyUnchanged

\* retrieve_outputs, lines 44-52: the inputmap of a is looked up and read.
RetrieveExists ==
    /\ copy_run.ret.pc = "exists"
    /\ copy_run' = [copy_run EXCEPT !.ret.pc =
                       IF copy_run.inputmap THEN "remove" ELSE "miss"]
    /\ CopyUnchanged

\* retrieve_outputs, line 56: remove_file(output_path)?
RetrieveRemove ==
    /\ copy_run.ret.pc = "remove"
    /\ copy_run' = [copy_run EXCEPT
                       !.ret.pc = IF copy_run.out = "none" THEN "err" ELSE "open_src",
                       !.out = "none"]
    /\ CopyUnchanged

\* retrieve_outputs, line 57, fs::copy: outputs/<c> is opened.
RetrieveOpenSource ==
    /\ copy_run.ret.pc = "open_src"
    /\ copy_run' = [copy_run EXCEPT !.ret.pc = "open_dst"]
    /\ CopyUnchanged

\* fs::copy: the output is created in the workspace, empty.
RetrieveOpenDestination ==
    /\ copy_run.ret.pc = "open_dst"
    /\ copy_run' = [copy_run EXCEPT !.ret.pc = "copy", !.out = "retrieved",
                                    !.retrieved = << >>]
    /\ CopyUnchanged

\* fs::copy: the next block of outputs/<c> is appended to the output, or the
\* end of outputs/<c> is read and retrieve_outputs returns Ok(true).
RetrieveCopyBlock ==
    /\ copy_run.ret.pc = "copy"
    /\ IF copy_run.ret.off < Len(copy_run.blob)
       THEN copy_run' = [copy_run EXCEPT
                            !.retrieved = Append(@, copy_run.blob[copy_run.ret.off + 1]),
                            !.ret.off = @ + 1]
       ELSE copy_run' = [copy_run EXCEPT !.ret.pc = "done"]
    /\ CopyUnchanged

CopyNext ==
    \/ InsertHashTree
    \/ InsertOpenSource
    \/ InsertOpenDestination
    \/ InsertCopyBlock
    \/ InsertWriteInputmap
    \/ RetrieveExists
    \/ RetrieveRemove
    \/ RetrieveOpenSource
    \/ RetrieveOpenDestination
    \/ RetrieveCopyBlock

CopySpec == CopyInit /\ [][CopyNext]_vars

\* C27: when one worker's insert copies into outputs/<c> while another
\* worker's retrieve copies outputs/<c> to a workspace output, the retrieved
\* file ends up with the complete bytes of c: once retrieve_outputs has
\* returned Ok(true) the output holds them.
C27_RetrievedOutputIsComplete ==
    copy_run.ret.pc = "done" =>
        (copy_run.out = "retrieved" /\ copy_run.retrieved = Complete)

\* The retrieved output is complete when the other worker has not opened
\* outputs/<c> for writing before retrieve_outputs returns.
C27_CompleteWithoutOverlap ==
    (copy_run.ret.pc = "done"
     /\ copy_run.ins.pc \in {"hash_tree", "open_src", "open_dst", "err", "other_blob"}) =>
        (copy_run.out = "retrieved" /\ copy_run.retrieved = Complete)

\* Both workers are done, retrieve_outputs returned Ok(true) and
\* insert_outputs Ok, and the output in the workspace lacks blocks.
C27_Reached ==
    /\ copy_run.ret.pc = "done"
    /\ copy_run.ins.pc = "done"
    /\ copy_run.retrieved # Complete

\* The copy of the inserting worker ended on a half-written output, and
\* outputs/<c> is left without all of its blocks.
C27_BlobLeftIncomplete ==
    /\ copy_run.ret.pc = "done"
    /\ copy_run.ins.pc = "done"
    /\ copy_run.blob # Complete

\* ------------------------------------------------------------------------
\* Locks, deadlock and the work list (exec/conductor.rs)
\* ------------------------------------------------------------------------

\* The tasks whose mutex a step locks while the thread holds the work list
\* mutex: every task of the plan in the seeding loop (line 23), the task
\* popped in get_task_from_worklist (line 134), and every used_by task in
\* the completion loop of run_worker (line 81).
TaskLocksUnderWorkList ==
    (IF mainpc = "seed" /\ mainpc' = "check" THEN tasks ELSE {}) \cup
    UNION { (IF wpc[w] = "get" /\ wpc'[w] \in {"retrieve", "blocked"}
             THEN {pending_tasks[Len(pending_tasks)]} ELSE {}) \cup
            (IF wpc[w] = "finish" /\ wresult[w] = "ok" /\ wpc'[w] # "finish"
             THEN Range(used_by[wtask[w]]) ELSE {}) : w \in Workers }

\* C28: no thread ever acquires a task lock while holding the work list
\* lock, in the seeding step, in get_task_from_worklist or in the completion
\* step of the worker.
C28_NoTaskLockUnderWorkList ==
    [][TaskLocksUnderWorkList = {}]_vars

\* What holds of the locks taken under the work list: none of them is ever
\* held by another thread at that moment, so that no thread waits for a task
\* lock with the work list in its hands.
C28_TaskLockUnderWorkListIsFree ==
    wl_holder = "none" /\ \A w \in Workers : wpc[w] # "blocked"

\* A worker has popped a task, locking it under the work list lock.
C28_Reached ==
    \E w \in Workers : wpc[w] = "retrieve" /\ wtask[w] \in running_tasks

\* A thread that can take a step without being woken: a worker inside its
\* build step, or a thread about to take the work list mutex while no
\* blocked thread holds it.
CanRun ==
    \/ \E w \in Workers : wpc[w] \in {"retrieve", "build", "insert"}
    \/ /\ WorkListFree
       /\ \/ \E w \in Workers : wpc[w] \in {"get", "finish"}
          \/ mainpc \in {"seed", "check"}

\* C29: the conductor is free of deadlock: in no reachable state of a live
\* process is pending or running non-empty while every live thread is
\* blocked on a mutex or on the condition variable.
C29_NoDeadlock ==
    (Alive /\ (pending_tasks # << >> \/ running_tasks # {})) => CanRun

\* Work remains, the main thread and a worker wait on the condition
\* variable, a worker holds its task's lock in its build step, and another
\* task, which depends on it, is yet to be pushed under the work list lock.
C29_Witness ==
    /\ Alive
    /\ mainpc = "waiting"
    /\ \E w \in Workers : wpc[w] = "wait"
    /\ \E w \in Workers : wpc[w] = "build" /\ used_by[wtask[w]] # << >>

\* The number of times a task occurs in a sequence of tasks.
Occurrences(seq, t) == Cardinality({ i \in 1 .. Len(seq) : seq[i] = t })

\* C30: each task is pushed onto pending at most once and started by at
\* most one worker; no rule name is inserted into running twice, pending
\* never holds the same task twice, and a task is never in pending while it
\* is running or already built. As an invariant: pending holds no task
\* twice, and none that is running or built; the running tasks are those the
\* workers hold, each held by one worker, none built and still to be
\* started again. As a property of every step: a task is pushed only by the
\* seeding, with a counter of zero, or when its counter goes from one to
\* zero, and counters never go up, so that no task is pushed a second time;
\* a task is started only from pending, when it is neither running nor built
\* nor held by another worker.
C30_PushedAndStartedOnce ==
    /\ [](/\ \A t \in TaskIds : Occurrences(pending_tasks, t) <= 1
          /\ \A t \in Range(pending_tasks) :
                 /\ t \notin running_tasks
                 /\ ~is_built[t]
                 /\ \A w \in Workers : wtask[w] # t
          /\ \A w1, w2 \in Workers :
                 (wtask[w1] # 0 /\ wtask[w1] = wtask[w2]) => w1 = w2
          /\ \A t \in running_tasks : \E w \in Workers : wtask[w] = t)
    /\ [][/\ \A t \in TaskIds :
                /\ unbuilt_dependencies'[t] <= unbuilt_dependencies[t]
                /\ Occurrences(pending_tasks', t) > Occurrences(pending_tasks, t) =>
                       /\ unbuilt_dependencies'[t] = 0
                       /\ \/ mainpc = "seed"
                          \/ unbuilt_dependencies[t] = 1
          /\ \A w \in Workers :
                (wtask'[w] # 0 /\ wtask'[w] # wtask[w]) =>
                    /\ wtask'[w] = pending_tasks[Len(pending_tasks)]
                    /\ wtask'[w] \notin Range(pending_tasks')
                    /\ wtask'[w] \notin running_tasks
                    /\ wtask'[w] \in running_tasks'
                    /\ ~is_built[wtask'[w]]
                    /\ \A v \in Workers : wtask[v] # wtask'[w]]_vars

\* A task that became ready when its dependency finished is pending, pushed
\* by the worker that built the dependency, while another worker is still
\* in a build step.
C30_Witness ==
    /\ \E i \in 1 .. Len(pending_tasks) : depends_on[pending_tasks[i]] # {}
    /\ \E w \in Workers : wpc[w] = "build"

\* ------------------------------------------------------------------------
\* The assertions of Task (graph/task.rs) during conduct_build
\* ------------------------------------------------------------------------

\* A worker whose thread panicked in one of the assertions of Task:
\* dependency_finished asserts unbuilt_dependencies > 0, build_finished
\* asserts !is_built.
AssertionFailed == \E w \in Workers : wpc[w] = "panic"

\* C31: the pre-condition assertions of Task never fail during
\* conduct_build. No worker ever panics in dependency_finished or in
\* build_finished; at every step that calls dependency_finished on the
\* used_by tasks of a finished task, each of them has a counter above zero
\* and ends with that counter less one, never below zero; at every step
\* that calls build_finished the task is not yet built; and is_built never
\* goes from true back to false.
C31_TaskAssertionsHold ==
    /\ [](~AssertionFailed)
    /\ [][/\ \A t \in TaskIds : is_built[t] => is_built'[t]
          /\ \A t \in TaskIds :
                /\ unbuilt_dependencies'[t] >= 0
                /\ unbuilt_dependencies'[t] # unbuilt_dependencies[t] =>
                       /\ unbuilt_dependencies[t] > 0
                       /\ unbuilt_dependencies'[t] = unbuilt_dependencies[t] - 1
          /\ \A w \in Workers :
                (wpc[w] \in {"retrieve", "insert"} /\ wpc'[w] = "finish"
                    /\ wresult'[w] = "ok") =>
                    /\ ~is_built[wtask[w]]
                    /\ is_built'[wtask[w]]]_vars

\* Both assertions have been evaluated, more than once: a task with two
\* dependencies has had dependency_finished called on it twice, and it and
\* both dependencies have gone through build_finished.
C31_Witness ==
    \E t \in tasks :
        /\ Cardinality(depends_on[t]) = 2
        /\ unbuilt_dependencies[t] = 0
        /\ is_built[t]
        /\ \A d \in depends_on[t] : is_built[d]

\* ------------------------------------------------------------------------
\* run_worker over the cache (exec/conductor.rs, cache/build_cache.rs): the
\* builds of BuildSpec, with the bookkeeping of the conductor around each
\* build step. The tasks are named by their rules. With the rules of Rules
\* at most one task is ready at a time, so that the four workers never run
\* side by side: whichever of them pops a task runs it while the others
\* wait.
\* ------------------------------------------------------------------------

\* A finite set as a sequence, in the one order there is when it has at
\* most one element.
SetToSeq(S) == CHOOSE s \in Orderings(S) : TRUE

\* Task.used_by of the task of rule q in the plan of target t: add_dependency
\* pushed every task that depends on it.
PlanUsedBy(t, q) == SetToSeq({ r \in PlanTasks(t) : q \in RuleDependsOn(r) })

WorkerInit ==
    /\ PlanUnused
    /\ fs_kind = "posix"
    /\ env \in Envs
    /\ ws \in [WsPaths -> FileOrNone]
    /\ cache_outputs = << >>
    /\ cache_inputmaps = << >>
    /\ clock = 0
    /\ edits = 0
    /\ last_op = NoOp
    /\ snap = [r \in RuleNames |-> NoSnap]
    /\ phase = "idle"
    /\ build_no = 0
    /\ target = ""
    /\ task_outcome = [r \in RuleNames |-> "none"]
    /\ src_changed = FALSE
    /\ output_removed = FALSE
    /\ second = FALSE
    /\ tasks = {}
    /\ depends_on = [r \in RuleNames |-> {}]
    /\ used_by = [r \in RuleNames |-> << >>]
    /\ unbuilt_dependencies = [r \in RuleNames |-> 0]
    /\ is_built = [r \in RuleNames |-> FALSE]
    /\ pending_tasks = << >>
    /\ running_tasks = {}
    /\ error_occurred = FALSE
    /\ wl_holder = "none"
    /\ wpc = [w \in Workers |-> "done"]
    /\ wtask = [w \in Workers |-> ""]
    /\ wresult = [w \in Workers |-> "none"]
    /\ mainpc = "none"
    /\ main_result = "none"
    /\ exit_code = 0
    /\ gc_invoked = FALSE
    /\ step_failed = FALSE
    /\ error_returned = FALSE

\* main_internal, lines 43-49, and conduct_build, lines 19-35: a run of
\* Hexmake plans its target, pushes the tasks that are ready to run and
\* spawns the workers.
WorkerStartBuild(t) ==
    /\ phase # "building"
    /\ build_no < MaxBuilds
    /\ phase' = "building"
    /\ build_no' = build_no + 1
    /\ target' = t
    /\ task_outcome' = [r \in RuleNames |-> "none"]
    /\ tasks' = PlanTasks(t)
    /\ depends_on' = [r \in RuleNames |->
                         IF r \in PlanTasks(t) THEN RuleDependsOn(r) ELSE {}]
    /\ used_by' = [r \in RuleNames |->
                      IF r \in PlanTasks(t) THEN PlanUsedBy(t, r) ELSE << >>]
    /\ unbuilt_dependencies' = [r \in RuleNames |->
                                   IF r \in PlanTasks(t)
                                   THEN Cardinality(RuleDependsOn(r)) ELSE 0]
    /\ is_built' = [r \in RuleNames |-> FALSE]
    /\ pending_tasks' = SetToSeq({ r \in PlanTasks(t) : RuleDependsOn(r) = {} })
    /\ running_tasks' = {}
    /\ error_occurred' = FALSE
    /\ wpc' = [w \in Workers |-> "get"]
    /\ wtask' = [w \in Workers |-> ""]
    /\ wresult' = [w \in Workers |-> "none"]
    /\ exit_code' = 0
    /\ UNCHANGED << wl_holder, mainpc, main_result, gc_invoked, step_failed,
                    error_returned >>
    /\ UNCHANGED << src_changed, output_removed, second >>
    /\ UNCHANGED << cacheVars, planVars >>

\* get_task_from_worklist, lines 128-136: pop the last pending task and
\* insert its name into running_tasks.
WorkerTakeTask(w) ==
    /\ phase = "building"
    /\ wpc[w] = "get"
    /\ pending_tasks # << >>
    /\ LET last_index == Len(pending_tasks)
           t == pending_tasks[last_index]
       IN  /\ pending_tasks' = SubSeq(pending_tasks, 1, last_index - 1)
           /\ running_tasks' = RunningAfterTake(running_tasks, t)
           /\ wtask' = [wtask EXCEPT ![w] = t]
    /\ wpc' = [wpc EXCEPT ![w] = "step"]
    /\ UNCHANGED << tasks, depends_on, used_by, unbuilt_dependencies, is_built,
                    error_occurred, wl_holder, wresult, mainpc, main_result,
                    exit_code, gc_invoked, step_failed, error_returned >>
    /\ UNCHANGED << cacheVars, buildVars, planVars >>

\* PosixFileSystem::write, lines 78-86, when it returns an error: fs::write
\* of the side file `<path>.tmp` failed, leaving nothing or the start of the
\* text in the side file, or fs::rename failed, leaving the whole text
\* there. Nothing is at the path itself.
SideFile(name) == name \o << ".tmp" >>

FailedWritesInPlaceMutant(fs, name, text) ==
    { WriteInputmap(fs, name, SubSeq(text, 1, n)) : n \in 0 .. Len(text) }
FailedWrites(fs, name, text) ==
    {fs} \cup { WriteInputmap(fs, SideFile(name), SubSeq(text, 1, n)) :
                    n \in 0 .. Len(text) }

\* insert_outputs when one of its file system calls returns an io::Error
\* although every input and output is in place: after k outputs have been
\* copied, hash_tree (line 68) or copy (line 70) fails on the next, or, all
\* of them copied, hash (line 76) or write (line 78) fails. The `?` returns
\* the error at once.
InsertOutputsIoErrors(fs, r) ==
    LET outputs == Rules[r].outputs
        copied(k) == CopyOutputs(fs, SubSeq(outputs, 1, k), 1, << >>)
        all == copied(Len(outputs))
    IN  { [fs |-> copied(k).fs, ret |-> "err"] : k \in 0 .. Len(outputs) } \cup
        { [fs |-> f, ret |-> "err"] :
              f \in FailedWrites(all.fs, hex_string_for_digest(hash(all.fs, r)),
                                 all.inputmap) }

\* What check_cache_or_build_now leaves when a step ends with the given
\* outcome: "hit" and "built" reach task.build_finished() at line 108, whose
\* assertion panics on a task already built; "err" is the `?` of line 98 or
\* of line 105; "exit" is the process exit inside build_rule.
StepEnds(w, outcome) ==
    /\ task_outcome' = [task_outcome EXCEPT ![wtask[w]] = outcome]
    /\ CASE outcome \in {"hit", "built"} ->
               /\ IF is_built[wtask[w]]
                  THEN /\ wpc' = [wpc EXCEPT ![w] = "panic"]
                       /\ UNCHANGED << is_built, wresult >>
                  ELSE /\ is_built' = [is_built EXCEPT ![wtask[w]] = TRUE]
                       /\ wpc' = [wpc EXCEPT ![w] = "finish"]
                       /\ wresult' = [wresult EXCEPT ![w] = "ok"]
               /\ UNCHANGED << phase, exit_code, step_failed, error_returned >>
         [] outcome = "err" ->
               /\ wpc' = [wpc EXCEPT ![w] = "finish"]
               /\ wresult' = [wresult EXCEPT ![w] = "err"]
               /\ step_failed' = TRUE
               /\ error_returned' = TRUE
               /\ UNCHANGED << is_built, phase, exit_code >>
         [] outcome = "exit" ->
               /\ phase' = "exited"
               /\ step_failed' = TRUE
               /\ UNCHANGED << is_built, wpc, wresult, error_returned >>

\* run_worker, line 61: check_cache_or_build_now on the task the worker
\* holds: retrieve_outputs; on a miss build_rule and insert_outputs.
WorkerCheckCacheOrBuildNow(w) ==
    /\ phase = "building"
    /\ wpc[w] = "step"
    /\ LET r == wtask[w]
           got == retrieve_outputs(Fs, r)
       IN  CASE got.ret = "true" ->
                   /\ Install(got.fs)
                   /\ StepEnds(w, "hit")
             [] got.ret = "err" ->
                   /\ Install(got.fs)
                   /\ StepEnds(w, "err")
             [] got.ret = "false" ->
                   \E ran \in BuildRuleResults(got.fs, r) :
                       IF ran.exit # 0
                       THEN /\ Install(ran.fs)
                            /\ StepEnds(w, "exit")
                            /\ exit_code' = ran.exit
                       ELSE \E put \in {insert_outputs(ran.fs, r)} \cup
                                           InsertOutputsIoErrors(ran.fs, r) :
                                /\ Install(put.fs)
                                /\ StepEnds(w, IF put.ret = "ok" THEN "built" ELSE "err")
    /\ UNCHANGED << tasks, depends_on, used_by, unbuilt_dependencies,
                    pending_tasks, running_tasks, error_occurred, wl_holder,
                    wtask, mainpc, main_result, gc_invoked >>
    /\ UNCHANGED << fs_kind, env, edits, last_op, snap >>
    /\ UNCHANGED << build_no, target, src_changed, output_removed, second >>
    /\ UNCHANGED planVars

\* run_worker, lines 63-77: the step returned an error. The task leaves
\* running_tasks, error_occurred is set, pending_tasks is cleared and the
\* worker returns; wait_for_workers then finds nothing pending or running
\* and conduct_build returns the error.
WorkerFinishErr(w) ==
    /\ phase = "building"
    /\ wpc[w] = "finish"
    /\ wresult[w] = "err"
    /\ running_tasks' = running_tasks \ {wtask[w]}
    /\ error_occurred' = TRUE
    /\ pending_tasks' = << >>
    /\ wpc' = [wpc EXCEPT ![w] = "done"]
    /\ wtask' = [wtask EXCEPT ![w] = ""]
    /\ wresult' = [wresult EXCEPT ![w] = "none"]
    /\ phase' = "failed"
    /\ UNCHANGED << tasks, depends_on, used_by, unbuilt_dependencies, is_built,
                    wl_holder, mainpc, main_result, exit_code,
                    gc_invoked, step_failed, error_returned >>
    /\ UNCHANGED << build_no, target, task_outcome, src_changed, output_removed,
                    second >>
    /\ UNCHANGED << cacheVars, planVars >>

\* run_worker, lines 63-88: the step succeeded. The task leaves
\* running_tasks; dependency_finished is called on each used_by task, which
\* is pushed when the count it returns is zero.
WorkerFinishOk(w) ==
    /\ phase = "building"
    /\ wpc[w] = "finish"
    /\ wresult[w] = "ok"
    /\ LET t == wtask[w]
           users == Range(used_by[t])
       IN  /\ running_tasks' = running_tasks \ {t}
           /\ IF \E u \in users : unbuilt_dependencies[u] = 0
              THEN /\ wpc' = [wpc EXCEPT ![w] = "panic"]
                   /\ UNCHANGED << unbuilt_dependencies, pending_tasks, wtask, wresult >>
              ELSE /\ unbuilt_dependencies' =
                          [u \in RuleNames |-> IF u \in users
                                               THEN unbuilt_dependencies[u] - 1
                                               ELSE unbuilt_dependencies[u]]
                   /\ pending_tasks' = pending_tasks \o NewlyReady(t)
                   /\ wpc' = [wpc EXCEPT ![w] = "get"]
                   /\ wtask' = [wtask EXCEPT ![w] = ""]
                   /\ wresult' = [wresult EXCEPT ![w] = "none"]
    /\ UNCHANGED << tasks, depends_on, used_by, is_built, error_occurred,
                    wl_holder, mainpc, main_result, exit_code,
                    gc_invoked, step_failed, error_returned >>
    /\ UNCHANGED << cacheVars, buildVars, planVars >>

\* get_task_from_worklist, lines 123-126, and conduct_build, lines 37-40:
\* nothing is pending or running; the workers return, wait_for_workers
\* returns Ok and the main thread calls maybe_gc.
WorkerFinishBuild ==
    /\ phase = "building"
    /\ \A w \in Workers : wpc[w] = "get"
    /\ pending_tasks = << >> /\ running_tasks = {}
    /\ wpc' = [w \in Workers |-> "done"]
    /\ Install(maybe_gc(Fs))
    /\ phase' = "done"
    /\ gc_invoked' = TRUE
    /\ UNCHANGED << tasks, depends_on, used_by, unbuilt_dependencies, is_built,
                    pending_tasks, running_tasks, error_occurred, wl_holder,
                    wtask, wresult, mainpc, main_result, exit_code,
                    step_failed, error_returned >>
    /\ UNCHANGED << fs_kind, env, edits, last_op, snap >>
    /\ UNCHANGED << build_no, target, task_outcome, src_changed, output_removed,
                    second >>
    /\ UNCHANGED planVars

WorkerNext ==
    \/ \E t \in RuleNames : WorkerStartBuild(t)
    \/ \E w \in Workers : WorkerTakeTask(w)
    \/ \E w \in Workers : WorkerCheckCacheOrBuildNow(w)
    \/ \E w \in Workers : WorkerFinishErr(w)
    \/ \E w \in Workers : WorkerFinishOk(w)
    \/ WorkerFinishBuild
    \/ \E path \in SourcePaths, contents \in FileOrNone : EditSource(path, contents)
    \/ \E path \in OutputPaths : RemoveOutput(path)

\* Hexmake run several times on one workspace, worker by worker.
WorkerSpec == WorkerInit /\ [][WorkerNext]_vars

\* ------------------------------------------------------------------------
\* Properties of a failed build step
\* ------------------------------------------------------------------------

\* The step of the task of rule r failed in this build: retrieve_outputs or
\* insert_outputs returned an error, or build_rule ended the process.
StepFailed(r) == task_outcome[r] \in {"err", "exit"}

\* The dependencies of a task on whose account its counter has been
\* decremented: those that are built and whose worker has gone through the
\* used_by loop of run_worker.
Accounted(u) == { d \in depends_on[u] : is_built[d] /\ d \notin running_tasks }

\* The inputmaps the cache holds for rules: the files of inputmaps/ named by
\* a rule hash, which are those retrieve_outputs looks up. A side file of
\* PosixFileSystem::write is not among them.
RuleInputmaps(maps) ==
    [name \in { n \in DOMAIN maps : Len(n) = 1 } |-> maps[name]]

\* C32: a task whose build step fails (retrieve error, executor error or
\* insert error) is never marked built, none of its used_by tasks has its
\* counter decremented on its account, and no inputmap is written to the
\* cache by that step. In every state: a failed task is not built, every
\* counter is the number of dependencies less those built and accounted
\* for, and a task that uses a failed task still counts it and has not
\* run. At every step: the step in which a task fails, and the bookkeeping
\* of run_worker that follows an error, leave is_built, the counters and the
\* inputmaps of every rule as they were.
C32_FailedStepLeavesNoTrace ==
    /\ [](/\ \A r \in tasks : StepFailed(r) => ~is_built[r]
          /\ \A u \in tasks :
                /\ unbuilt_dependencies[u] =
                       Cardinality(depends_on[u]) - Cardinality(Accounted(u))
                /\ \A d \in depends_on[u] :
                       StepFailed(d) =>
                           /\ unbuilt_dependencies[u] > 0
                           /\ d \notin Accounted(u)
                           /\ task_outcome[u] = "none")
    /\ [][/\ \A r \in RuleNames :
                (~StepFailed(r) /\ StepFailed(r)') =>
                    /\ is_built' = is_built
                    /\ unbuilt_dependencies' = unbuilt_dependencies
                    /\ RuleInputmaps(cache_inputmaps') = RuleInputmaps(cache_inputmaps)
          /\ \A w \in Workers :
                (wpc[w] = "finish" /\ wresult[w] = "err" /\ wpc'[w] # "finish") =>
                    /\ is_built' = is_built
                    /\ unbuilt_dependencies' = unbuilt_dependencies
                    /\ RuleInputmaps(cache_inputmaps') = RuleInputmaps(cache_inputmaps)
                    /\ pending_tasks' = << >>]_vars

\* The step of "lib" failed in insert_outputs, after the commands ran, in a
\* build of "main", which uses it; the worker has been through run_worker's
\* error path.
C32_Witness ==
    /\ phase = "failed"
    /\ target = "main"
    /\ task_outcome["lib"] = "err"
    /\ cache_outputs # << >>
    /\ RuleInputmaps(cache_inputmaps) = << >>
    /\ used_by["lib"] = << "main" >>
    /\ unbuilt_dependencies["main"] = 1

\* ------------------------------------------------------------------------
\* conduct_build on the plan of a Hexmake file (main.rs, lines 43-49): the
\* conductor above, started on what plan_build returned for the rules and
\* the targets, so that each task has its rule's inputs and outputs.
\* ------------------------------------------------------------------------

\* The Hexmake files that are run: MaxRules rules, the i-th named Letters[i]
\* with the output out/<name>; the second rule may list the output of the
\* first as well, which check_file lets through; the inputs are a source
\* file and any of the outputs of the rules before it in the file.
RunFiles ==
    { [ i \in 1 .. MaxRules |->
          [ name    |-> RuleNameOf(i),
            outputs |-> << OutputOf(i) >> \o
                        (IF i = 2 /\ shared THEN << OutputOf(1) >> ELSE << >>),
            inputs  |-> << SourceInput >> \o
                        [k \in 1 .. Cardinality(uses[i]) |->
                            OutputOf(Ascending(uses[i])[k])] ] ] :
      uses \in { u \in [1 .. MaxRules -> SUBSET (1 .. MaxRules)] :
                    \A i \in 1 .. MaxRules : \A j \in u[i] : j < i },
      shared \in BOOLEAN }

\* The targets given on the command line: one rule name, or two in the
\* order of the file.
RunTargets ==
    { << RuleNameOf(i) >> : i \in 1 .. MaxRules } \cup
    UNION { { << RuleNameOf(i), RuleNameOf(j) >> : j \in (i + 1) .. MaxRules } :
                i \in 1 .. MaxRules }

\* The conductor names the task of the rule Letters[i] by the number i; the
\* BTreeMap of the plan iterates in the order of the names.
TaskOfRule(rule_name) == CHOOSE i \in 1 .. MaxRules : RuleNameOf(i) = rule_name

TasksOfRules(rule_names) ==
    [k \in 1 .. Len(rule_names) |-> TaskOfRule(rule_names[k])]

\* The state in which conduct_build is called: plan_build has returned a
\* BuildPlan, no task has run.
PlannedInit ==
    /\ CacheUnused
    /\ BuildUnused
    /\ hex_file \in RunFiles
    /\ targets \in RunTargets
    /\ plan_result = plan_build(hex_file, targets)
    /\ plan_result.kind = "plan"
    /\ main_run = << >>
    /\ hash_run = << >>
    /\ copy_run = << >>
    /\ LET planned(t) == t <= MaxRules /\ RuleNameOf(t) \in DOMAIN plan_result.tasks
           task(t) == plan_result.tasks[RuleNameOf(t)]
       IN  /\ tasks = { t \in TaskIds : planned(t) }
           /\ depends_on = [t \in TaskIds |->
                  IF planned(t) THEN Range(TasksOfRules(task(t).depends_on)) ELSE {}]
           /\ used_by = [t \in TaskIds |->
                  IF planned(t) THEN TasksOfRules(task(t).used_by) ELSE << >>]
           /\ unbuilt_dependencies = [t \in TaskIds |->
                  IF planned(t) THEN task(t).unbuilt_dependencies ELSE 0]
           /\ is_built = [t \in TaskIds |->
                  IF planned(t) THEN task(t).is_built ELSE FALSE]
    /\ pending_tasks = << >>
    /\ running_tasks = {}
    /\ error_occurred = FALSE
    /\ wl_holder = "none"
    /\ wpc = [w \in Workers |-> "get"]
    /\ wtask = [w \in Workers |-> 0]
    /\ wresult = [w \in Workers |-> "none"]
    /\ mainpc = "seed"
    /\ main_result = "none"
    /\ exit_code = 0
    /\ gc_invoked = FALSE
    /\ step_failed = FALSE
    /\ error_returned = FALSE

\* One build of the plan of a Hexmake file by the main thread and the four
\* workers.
PlannedSpec == PlannedInit /\ [][CondNext]_vars

\* ------------------------------------------------------------------------
\* Properties of the tasks that run side by side
\* ------------------------------------------------------------------------

\* The rule of a task.
RuleOfTask(t) == rule_map(hex_file)[RuleNameOf(t)]

\* The workspace paths a running task writes: retrieve_outputs (lines 54-58)
\* and copy_outputs write the outputs of its rule.
Writes(t) == Range(RuleOfTask(t).outputs)

\* The workspace paths a running task reads as declared inputs: BuildHash
\* and copy_inputs read the inputs of its rule.
Reads(t) == Range(RuleOfTask(t).inputs)

\* Every output path has exactly one producing rule.
UniqueProducers ==
    \A i, j \in 1 .. Len(hex_file) :
        i # j => Range(hex_file[i].outputs) \cap Range(hex_file[j].outputs) = {}

\* Two different workers hold tasks at the same time.
SideBySide(w1, w2) == w1 # w2 /\ wtask[w1] # 0 /\ wtask[w2] # 0

\* C33: for a rule set in which every output path has exactly one producing
\* rule, no two tasks that are running at the same time write the same
\* workspace output path, and no task writes a workspace path that a
\* concurrently running task reads as one of its declared inputs.
C33_RunningTasksDoNotInterfere ==
    UniqueProducers =>
        \A w1, w2 \in Workers :
            SideBySide(w1, w2) =>
                /\ Writes(wtask[w1]) \cap Writes(wtask[w2]) = {}
                /\ Writes(wtask[w1]) \cap Reads(wtask[w2]) = {}

\* Two tasks are in their build steps at the same time, in a rule set with
\* one producer for every output, while a third task, which reads the
\* outputs of both, waits for them.
C33_Witness ==
    /\ UniqueProducers
    /\ \E w1, w2 \in Workers :
           /\ SideBySide(w1, w2)
           /\ wpc[w1] = "build" /\ wpc[w2] = "build"
           /\ \E t \in tasks : depends_on[t] = {wtask[w1], wtask[w2]}

\* What the premise of C33 rules out, and the model reaches without it: two
\* rules that list the same output run side by side.
C33_SharedOutputRunsSideBySide ==
    \E w1, w2 \in Workers :
        SideBySide(w1, w2) /\ Writes(wtask[w1]) \cap Writes(wtask[w2]) # {}

\* ------------------------------------------------------------------------
\* The size phase of maybe_gc (cache/build_cache.rs, lines 104-117)
\* ------------------------------------------------------------------------

\* The files of a sequence of output files from the first to the n-th.
Prefix(output_files, n) == { output_files[i] : i \in 1 .. n }

\* What the size phase does to the file system fs when the trigger fires,
\* read off the list it walks: the walk goes oldest first; the files it
\* deletes are a prefix of the list, the shortest one whose removal brings
\* the total to at most TARGET_SIZE; the files it keeps are the rest; it
\* touches nothing else.
SizePhaseEvictsShortestPrefix(fs) ==
    LET files == OutputFiles(fs)
        output_files == SortByModtime(fs, files)
        total_size == TotalSize(fs, files)
        evicted == Evict(fs, output_files, 1, total_size, {})
        kept == evicted.remaining_outputs
        gone == files \ kept
        left(n) == total_size - TotalSize(fs, Prefix(output_files, n))
    IN  /\ Range(output_files) = files /\ Len(output_files) = Cardinality(files)
        /\ \A i, j \in 1 .. Len(output_files) :
               i < j => modtime(fs, output_files[i]) <= modtime(fs, output_files[j])
        /\ \E n \in 1 .. Len(output_files) :
               /\ gone = Prefix(output_files, n)
               /\ left(n) <= TARGET_SIZE
               /\ \A m \in 0 .. (n - 1) : left(m) > TARGET_SIZE
        /\ \A d \in gone : \A k \in kept : modtime(fs, d) <= modtime(fs, k)
        /\ DOMAIN evicted.fs.outs = DOMAIN fs.outs \ { d.name : d \in gone }
        /\ \A name \in DOMAIN evicted.fs.outs : evicted.fs.outs[name] = fs.outs[name]
        /\ evicted.fs.maps = fs.maps
        /\ evicted.fs.ws = fs.ws

\* C34: when the GC trigger fires, the size phase deletes exactly the
\* shortest oldest-first prefix of the outputs sorted by modtime whose
\* removal brings the running total to at most TARGET: every output it
\* evicts has modtime no later than every output it keeps, and it deletes no
\* output once the total is at most TARGET. At every call of maybe_gc whose
\* trigger fires this holds of the size phase, and every file that
\* maybe_gc leaves in outputs/ is one the size phase kept.
C34_SizePhaseEvictsShortestPrefix ==
    [][(last_op'.op = "gc" /\ last_op'.fired) =>
           /\ SizePhaseEvictsShortestPrefix(Fs)
           /\ { [dir |-> OutputsDir, name |-> n] : n \in DOMAIN cache_outputs' }
                  \subseteq Evict(Fs, SortByModtime(Fs, OutputFiles(Fs)), 1,
                                  TotalSize(Fs, OutputFiles(Fs)), {}).remaining_outputs]_vars

\* A triggered maybe_gc has returned on a cache in which every file was
\* named by an inputmap and no inputmap named a missing file: what it
\* deleted goes back to the size phase, and it has left files in outputs/.
C34_Witness ==
    /\ last_op.op = "gc"
    /\ last_op.fired
    /\ last_op.ret = "collected"
    /\ ~last_op.had_orphan
    /\ ~last_op.had_dangling
    /\ cache_outputs # << >>

\* ------------------------------------------------------------------------
\* The cache entries a triggered maybe_gc leaves alone
\* ------------------------------------------------------------------------

\* The files of outputs/ that survive the size phase of maybe_gc on the
\* file system fs, by name.
SurvivingOutputs(fs) ==
    { o.name : o \in Evict(fs, SortByModtime(fs, OutputFiles(fs)), 1,
                           TotalSize(fs, OutputFiles(fs)), {}).remaining_outputs }

\* The inputmaps all of whose referenced outputs survive the size phase.
ValidInputmaps(fs) ==
    { name \in DOMAIN fs.maps :
          Range(HashLines(fs.maps[name])) \subseteq SurvivingOutputs(fs) }

\* C35: a triggered maybe_gc never deletes an inputmap all of whose
\* referenced outputs survive the size phase, and never deletes a surviving
\* output that such an inputmap references: at every call whose trigger
\* fires, each such inputmap is still there afterwards with the same text,
\* and each output it names is still there with the same contents and
\* modification time.
C35_ValidEntriesAreLeftUntouched ==
    [][(last_op'.op = "gc" /\ last_op'.fired) =>
           \A name \in ValidInputmaps(Fs) :
               /\ name \in DOMAIN cache_inputmaps'
               /\ cache_inputmaps'[name] = cache_inputmaps[name]
               /\ \A n \in Range(HashLines(cache_inputmaps[name])) :
                      /\ n \in DOMAIN cache_outputs'
                      /\ cache_outputs'[n] = cache_outputs[n]]_vars

\* A triggered maybe_gc has deleted files, on a cache that held an inputmap
\* naming a missing file, and has left an inputmap together with the output
\* it names.
C35_Witness ==
    /\ last_op.op = "gc"
    /\ last_op.fired
    /\ last_op.ret = "collected"
    /\ last_op.had_dangling
    /\ \E name \in DOMAIN cache_inputmaps :
           /\ HashLines(cache_inputmaps[name]) # << >>
           /\ Range(HashLines(cache_inputmaps[name])) \subseteq DOMAIN cache_outputs

\* ------------------------------------------------------------------------
\* The contents of a plan (graph/planner.rs)
\* ------------------------------------------------------------------------

\* The rules a rule needs directly: those its inputs that are outputs
\* resolve to.
DirectDependencies(rules, rule_name) ==
    { Resolve(rules, x) : x \in References(rules, rule_name) }

\* C36: a successful plan contains exactly one task for each rule reachable
\* from the targets through output-typed inputs and no task for any other
\* rule; source (non-output) inputs contribute no task and no edge, and
\* target_rules is the set of rules the targets resolve to. The tasks are
\* keyed by rule name, each holds the rule of that name, its depends_on
\* lists exactly the rules its output-typed inputs resolve to, each once,
\* and its used_by exactly the tasks that list it.
C36_PlanHoldsTheReachableRules ==
    plan_result.kind = "plan" =>
        LET plan_tasks == plan_result.tasks
        IN  /\ DOMAIN plan_tasks = RulesOfTargets
            /\ plan_result.target_rules =
                   { Resolve(hex_file, targets[i]) : i \in 1 .. Len(targets) }
            /\ \A n \in DOMAIN plan_tasks :
                   /\ plan_tasks[n].rule = rule_map(hex_file)[n]
                   /\ plan_tasks[n].rule.name = n
                   /\ Range(plan_tasks[n].depends_on) = DirectDependencies(hex_file, n)
                   /\ Len(plan_tasks[n].depends_on) =
                          Cardinality(DirectDependencies(hex_file, n))
                   /\ Range(plan_tasks[n].used_by) =
                          { m \in DOMAIN plan_tasks : n \in DirectDependencies(hex_file, m) }
                   /\ ~\E i \in 1 .. Len(plan_tasks[n].depends_on) :
                          plan_tasks[n].depends_on[i] = SourceInput

\* plan_build has planned two targets that stand for the same rule, one by
\* its name and one by its output; the rule has a source input and needs
\* one other rule, and a rule of the file is left out of the plan.
C36_Witness ==
    /\ plan_result.kind = "plan"
    /\ Len(targets) = 2
    /\ ~is_output(targets[1]) /\ is_output(targets[2])
    /\ Cardinality(plan_result.target_rules) = 1
    /\ Cardinality(DOMAIN plan_result.tasks) = 2
    /\ \E i \in 1 .. Len(hex_file) : hex_file[i].name \notin DOMAIN plan_result.tasks

\* Two results of plan_build are the same plan: both are plans with the same
\* target rules and the same tasks, each task with the same rule, the same
\* edges in both directions and the same counter and flag. The edges are
\* compared as sets: the order of a used_by list is the order in which the
\* planner met its users.
SamePlan(p, q) ==
    /\ p.kind = "plan" /\ q.kind = "plan"
    /\ p.target_rules = q.target_rules
    /\ DOMAIN p.tasks = DOMAIN q.tasks
    /\ \A n \in DOMAIN p.tasks :
           /\ p.tasks[n].rule = q.tasks[n].rule
           /\ Range(p.tasks[n].depends_on) = Range(q.tasks[n].depends_on)
           /\ Len(p.tasks[n].depends_on) = Len(q.tasks[n].depends_on)
           /\ Range(p.tasks[n].used_by) = Range(q.tasks[n].used_by)
           /\ Len(p.tasks[n].used_by) = Len(q.tasks[n].used_by)
           /\ p.tasks[n].unbuilt_dependencies = q.tasks[n].unbuilt_dependencies
           /\ p.tasks[n].is_built = q.tasks[n].is_built

\* The target lists that name the same targets as the given one, in any
\* order and with any repetition.
Rearranged(target_list) ==
    { other \in TargetLists : Range(other) = Range(target_list) }

\* C37: the plan does not depend on the order or multiplicity of the
\* targets: for every rule set, any permutation of the target list and any
\* repetition of a target (including listing a rule together with one of
\* its own dependencies) yields the same task set, the same edges and the
\* same counters.
C37_PlanIgnoresTargetOrder ==
    plan_result.kind = "plan" =>
        \A other \in Rearranged(targets) :
            SamePlan(plan_result, plan_build(hex_file, other))

\* plan_build has planned two targets that stand for different rules, both
\* of which use a third; with the two targets the other way round the
\* planner meets the users of that rule in the other order.
C37_Witness ==
    /\ plan_result.kind = "plan"
    /\ Len(targets) = 2
    /\ Cardinality(plan_result.target_rules) = 2
    /\ \E d \in DOMAIN plan_result.tasks :
           /\ Range(plan_result.tasks[d].used_by) = plan_result.target_rules
           /\ plan_build(hex_file, << targets[2], targets[1] >>).tasks[d].used_by
                  # plan_result.tasks[d].used_by

\* The case C37 names: plan_build has planned a rule together with one of
\* its own dependencies, the dependency being listed first.
C37_RuleListedWithItsDependency ==
    /\ plan_result.kind = "plan"
    /\ Len(targets) = 2
    /\ \E t, d \in DOMAIN plan_result.tasks :
           /\ t # d
           /\ targets = << d, t >>
           /\ d \in Range(plan_result.tasks[t].depends_on)

\* ------------------------------------------------------------------------
\* C38: target strings that are not paths
\* ------------------------------------------------------------------------

\* The diagnostics of plan_one_target (lines 76, 83 and 97).
Diagnostics ==
    { "No rule exists to build", "Rule cycle involving rule", "No rule exists named" }

\* The targets up to the first one plan_one_target does not return Ok for
\* are paths for HexPath::try_from.
TargetsParse ==
    \A i \in 1 .. Len(targets) :
        (\A j \in 1 .. (i - 1) :
             plan_one_target(hex_file, << >>, targets[j], {}).kind = "ok")
            => try_from(targets[i]).ok

\* C38: for every raw target string, including strings that are not valid
\* paths (empty, leading or trailing slash, `.` or `..` segment), plan_build
\* returns either a plan or a diagnostic; a first target that does not parse
\* as a path is taken as a rule name and, no rule having that name, yields
\* `No rule exists named`; planning never aborts abnormally.
C38_EveryTargetIsPlannedOrDiagnosed ==
    plan_result.kind # "none" =>
        /\ plan_result.kind \in {"plan"} \cup Diagnostics
        /\ (/\ targets # << >>
            /\ ~try_from(targets[1]).ok
            /\ targets[1] \notin DOMAIN rule_map(hex_file))
               => /\ plan_result.kind = "No rule exists named"
                  /\ plan_result.name = targets[1]

\* C38 for the target lists whose strings HexPath::try_from accepts:
\* plan_build returns a plan or a diagnostic, and it aborts only on a target
\* that try_from rejects.
C38_PathTargetsArePlannedOrDiagnosed ==
    plan_result.kind # "none" =>
        /\ TargetsParse => plan_result.kind \in {"plan"} \cup Diagnostics
        /\ plan_result.kind = "panic"
               => /\ ~TargetsParse
                  /\ ~try_from(plan_result.name).ok
                  /\ plan_result.name \in Range(targets)

\* plan_build has been given a first target it plans and a second one that
\* HexPath::try_from rejects.
C38_Witness ==
    /\ plan_result.kind # "none"
    /\ Len(targets) = 2
    /\ plan_one_target(hex_file, << >>, targets[1], {}).kind = "ok"
    /\ ~try_from(targets[2]).ok

\* ------------------------------------------------------------------------
\* C39: the planner's loop over the inputs of one rule (planner.rs 102-108)
\* when several inputs are outputs of the same rule, as in
\* test_rule_with_multiple_outputs.
\* ------------------------------------------------------------------------

\* The most inputs the rule under construction lists.
MaxInputs == 4

\* The rule whose task is under construction, and the two rules that make
\* its inputs, each with two outputs.
UserRuleName == RuleNameOf(3)

ProducerOutputs(i) == << OutputOf(i), OutputOf(i + 3) >>

UserInputs ==
    UNION { [1 .. n -> {SourceInput} \cup Range(ProducerOutputs(1))
                           \cup Range(ProducerOutputs(2))] : n \in 0 .. MaxInputs }

\* The Hexmake files of the loop: two rules without inputs and with two
\* outputs each, and one rule listing any sequence of their outputs and of a
\* source file, a path possibly more than once.
MultiOutputFiles ==
    { << [name |-> RuleNameOf(1), outputs |-> ProducerOutputs(1), inputs |-> << >>],
         [name |-> RuleNameOf(2), outputs |-> ProducerOutputs(2), inputs |-> << >>],
         [name |-> UserRuleName, outputs |-> << OutputOf(3) >>, inputs |-> ins] >> :
      ins \in UserInputs }

\* plan_one_target has made the task of the rule (line 99) and is about to
\* loop over its inputs: `targets` holds the inputs the loop has been
\* through, plan_result.tasks the task under construction and task_for_rule.
SubtaskInit ==
    /\ ConductorUnused
    /\ CacheUnused
    /\ BuildUnused
    /\ hex_file \in MultiOutputFiles
    /\ targets = << >>
    /\ plan_result = [ kind |-> "loop", name |-> UserRuleName, target_rules |-> {},
                       tasks |-> (UserRuleName :> NewTask(rule_map(hex_file)[UserRuleName])) ]
    /\ main_run = << >>
    /\ hash_run = << >>
    /\ copy_run = << >>

\* One turn of the loop of lines 102-108 on the next input of the rule.
AddSubtask ==
    /\ plan_result.kind = "loop"
    /\ Len(targets) < Len(rule_map(hex_file)[plan_result.name].inputs)
    /\ LET from == plan_result.name
           input == rule_map(hex_file)[from].inputs[Len(targets) + 1]
           task_for_rule == [n \in DOMAIN plan_result.tasks \ {from} |->
                                 plan_result.tasks[n]]
           sub == plan_one_target(hex_file, task_for_rule, input, {from})
       IN  /\ targets' = Append(targets, input)
           /\ IF ~is_output(input)
              THEN plan_result' = plan_result
              ELSE IF sub.kind # "ok"
              THEN plan_result' = [ kind |-> sub.kind, name |-> sub.name,
                                    target_rules |-> {}, tasks |-> << >> ]
              ELSE LET added == add_dependency(plan_result.tasks[from],
                                               sub.task_for_rule[sub.name])
                   IN  plan_result' =
                           [plan_result EXCEPT
                                !.tasks = (from :> added.from) @@
                                          [sub.task_for_rule EXCEPT ![sub.name] = added.to]]
    /\ UNCHANGED << hex_file, main_run, hash_run, copy_run >>
    /\ UNCHANGED << condVars, cacheVars, buildVars >>

SubtaskNext == AddSubtask

\* The loop of plan_one_target over the inputs of a rule whose inputs are
\* outputs of rules with several outputs.
SubtaskSpec == SubtaskInit /\ [][SubtaskNext]_vars

\* The rules whose outputs are among the inputs the loop has been through:
\* the rules add_dependency has been called for.
ProducersMet ==
    { rule_by_output(hex_file)[p] :
          p \in { q \in Range(targets) : is_output(q) } }

\* How many times add_dependency has been called for the rule.
CallsFor(rule_name) ==
    Cardinality({ i \in 1 .. Len(targets) :
                      /\ is_output(targets[i])
                      /\ rule_by_output(hex_file)[targets[i]] = rule_name })

\* C39: add_dependency is idempotent per ordered pair: however many times
\* it has been called for the same (from, to), as happens when a rule lists
\* several inputs produced by the same rule, there is exactly one entry for
\* `to` in from.depends_on, exactly one entry for `from` in to.used_by, and
\* from.unbuilt_dependencies has been incremented exactly once per `to`.
C39_AddDependencyIsIdempotent ==
    /\ plan_result.kind = "loop"
    /\ LET from == plan_result.tasks[plan_result.name]
       IN  /\ from.unbuilt_dependencies = Cardinality(ProducersMet)
           /\ Len(from.depends_on) = Cardinality(ProducersMet)
           /\ from.used_by = << >>
           /\ DOMAIN plan_result.tasks = {plan_result.name} \cup ProducersMet
           /\ \A to \in ProducersMet :
                  /\ Occurrences(from.depends_on, to) = 1
                  /\ Occurrences(plan_result.tasks[to].used_by, plan_result.name) = 1
                  /\ Len(plan_result.tasks[to].used_by) = 1
                  /\ plan_result.tasks[to].depends_on = << >>
                  /\ plan_result.tasks[to].unbuilt_dependencies = 0

\* The loop has called add_dependency three times for one rule (two of the
\* inputs being different outputs of it) and once for another.
C39_Witness ==
    /\ plan_result.kind = "loop"
    /\ Len(targets) = MaxInputs
    /\ \E to, other \in ProducersMet :
           /\ to # other
           /\ CallsFor(to) >= 3
           /\ CallsFor(other) = 1
           /\ Range(rule_map(hex_file)[to].outputs) \subseteq Range(targets)

\* ------------------------------------------------------------------------
\* C40: what ready_to_run answers
\* ------------------------------------------------------------------------

\* C40: in every task state, ready_to_run returns true if and only if
\* unbuilt_dependencies is zero and is_built is false; in particular it
\* returns false for a task that has already been built.
C40_ReadyToRunMeansUnbuiltAndUnblocked ==
    \A t \in tasks :
        ready_to_run(t) <=> (unbuilt_dependencies[t] = 0 /\ ~is_built[t])

\* C40 where conduct_build calls ready_to_run (lines 22-26), before any
\* worker is started: no task of the plan is built yet, and the ready tasks
\* are the unbuilt tasks with no unbuilt dependency.
C40_ReadyToRunWhenScheduling ==
    mainpc = "seed" =>
        \A t \in tasks :
            /\ ~is_built[t]
            /\ ready_to_run(t) <=> (unbuilt_dependencies[t] = 0 /\ ~is_built[t])

\* A task has been built, its dependencies finished before it, and
\* ready_to_run still answers true for it.
C40_Witness ==
    \E t \in tasks :
        /\ is_built[t]
        /\ depends_on[t] # {}
        /\ unbuilt_dependencies[t] = 0
        /\ ready_to_run(t)

====
